---- MODULE Spec2Model ----
(***************************************************************************)
(* The parallel execution engine of parallax: Manager.run() driving Tasks  *)
(* through an IOMap, the children the Tasks spawn (the environment), the   *)
(* Task termination state machine and the result builders of               *)
(* call/copy/slurp.                                                        *)
(*                                                                         *)
(* The orchestrator is one thread; its position in run() is pc. One step   *)
(* of pc is one iteration of a loop of manager.py (one task started, one   *)
(* task examined by reap_tasks, one poll, one timeout phase).  A keyboard  *)
(* interrupt may arrive between any two such steps.  Children act while    *)
(* the orchestrator is at the wait (pc = "poll"); a child may also exit    *)
(* between a reap and the timeout phase that follows it.                   *)
(***************************************************************************)
EXTENDS Integers, Sequences, FiniteSets, TLC

\* ------------------------------------------------------------------ bounds
NTasks == 2          \* most tasks submitted with add_task
MaxLimit == 2        \* largest parallelism limit tried
MaxTimeout == 1      \* largest timeout (seconds) tried
MaxOut == 2          \* most bytes a child writes to its stdout
MaxErr == 1          \* most bytes a child writes to its stderr
MaxIn == 2           \* most bytes of input given to a child
LongTimeout == 3     \* a timeout of several seconds
MaxOpens == 3        \* most calls of Writer.open_files on one Writer

\* ------------------------------------------------------- program constants
SIGKILL == 9
BUFFER_SIZE == 65536
DEFAULT_TIMEOUT == 0

Tasks == 1..NTasks
Hosts == {"h1", "h2"}
ExitCodes == {0, 1}                \* what a child may pass to exit()
ForeignSignals == {15}             \* SIGTERM: a signal a child may die of, not sent by the manager

\* Python's None for an int-valued field, and an int in such a field.
None == <<>>
Some(n) == <<n>>

VARIABLES
    \* Manager (manager.py:40-89)
    limit, timeout, tasks, save_tasks, running, done, taskcount,
    \* position in Manager.run and the locals of update_tasks / reap_tasks
    pc, first_update, ri, still_running, finished_count,
    \* the local wait of Manager.run: what check_timeout returned, then what
    \* was passed to iomap.poll
    wait,
    \* IOMap.readmap, IOMap.writemap: the registered fds
    readmap, writemap,
    \* the options every Task of the run is built with, and each task's host
    host, cmd, quiet, inline, inline_stdout, inputbuffer, callbacks, outdir, errdir,
    \* what make_iomap returned: "select" (IOMap) or "poll" (PollIOMap)
    iomap,
    \* outside run(): the call of slurp() in progress; the askpass helper process
    slurp, askpass,
    \* the Task objects: task[t] is a record of the fields of task t
    task,
    \* the callbacks object: the calls finished(task, n) so far; what result() returned
    finished_calls, result,
    \* the children, as the operating system sees them: kid[t]
    kid,
    \* the Writer thread of the run, its queue and the files it writes
    writer

mvars == <<limit, timeout, tasks, save_tasks, running, done, taskcount,
           pc, first_update, ri, still_running, finished_count, wait>>
\* what no step of run() changes
optvars ==
    <<host, cmd, quiet, inline, inline_stdout, inputbuffer, callbacks, outdir, errdir,
      iomap, slurp, askpass>>
vars == <<mvars, readmap, writemap, optvars, task, finished_calls, result, kid, writer>>

\* ----------------------------------------------------------------- helpers
Min(a, b) == IF a < b THEN a ELSE b

\* The clock of a task is followed up to the timeout of the run (up to
\* MaxTimeout when the run has none).
MaxElapsed == IF timeout > MaxTimeout THEN timeout ELSE MaxTimeout

Range(s) == {s[k] : k \in DOMAIN s}

\* ', '.join(lst)
RECURSIVE Join(_)
Join(lst) ==
    IF lst = <<>> THEN ""
    ELSE IF Len(lst) = 1 THEN lst[1]
    ELSE lst[1] \o ", " \o Join(Tail(lst))

\* The k-th byte a child writes to stdout / stderr.
OutByte(k) == SubSeq("abcdefgh", k, k)

ErrByte(k) == SubSeq("stuvwxyz", k, k)

\* A file descriptor is named by its task and its stream.
Fd(t, s) == <<t, s>>

\* ------------------------------------------------------------ the objects
\* What the operations below read and change: the Task objects, the children,
\* the IOMap and the Manager's done list with the callbacks' record of calls.
\* oracle: what the system calls made on behalf of an operation return;
\* trace: the calls of handlers, of unregister and of close() it made, in
\* order; error: an exception left it.
NoFaults == [err |-> [fd \in {} |-> ""], count |-> BUFFER_SIZE, select |-> ""]

World ==
    [task |-> task, kid |-> kid, readmap |-> readmap, writemap |-> writemap,
     done |-> done, finished_calls |-> finished_calls, writer |-> writer,
     oracle |-> NoFaults, trace |-> <<>>, error |-> FALSE]

SetWorld(W) ==
    \E X \in {W} :
        /\ task' = X.task
        /\ kid' = X.kid
        /\ readmap' = X.readmap
        /\ writemap' = X.writemap
        /\ done' = X.done
        /\ finished_calls' = X.finished_calls
        /\ writer' = X.writer

\* Task.__init__: a task that has not been started.
NewTask ==
    [proc |-> FALSE, exitstatus |-> None, killed |-> FALSE, failures |-> <<>>,
     stdin |-> FALSE, stdout |-> FALSE, stderr |-> FALSE,
     outputbuffer |-> "", errorbuffer |-> "", byteswritten |-> 0,
     elapsed |-> 0, nodenum |-> None,
     \* the spill files ("" for None); outname, errname: history, the names given
     outfile |-> "", errfile |-> "", outname |-> "", errname |-> "",
     \* history: os.kill calls made for the task; the Task methods called on it
     sigkills |-> 0, called |-> <<>>]

\* No child yet. A child is "alive" (its ends of the pipes open), "closed"
\* (running, its ends of the pipes closed), "dead" (exited, not yet waited for,
\* status is what Popen.poll() will return) or "reaped". sig: the manager's
\* SIGKILL is on its way. out, err: the bytes it has written so far; nout,
\* nerr: how many of them the task has read.
NoKid ==
    [state |-> "none", status |-> None, sig |-> FALSE,
     out |-> "", err |-> "", nout |-> 0, nerr |-> 0,
     \* inp: the bytes the task wrote to the child's stdin
     inp |-> "",
     \* history: the reads of the stdout pipe that returned bytes
     outreads |-> 0]

\* Popen(...): the child runs, in its own session, with three pipes to the task.
Popen == [NoKid EXCEPT !.state = "alive"]

\* history: method m was called on the task (first calls only, in order)
Note(T, m) ==
    IF m \in Range(T.called) THEN T ELSE [T EXCEPT !.called = Append(@, m)]

\* IOMap.register_read / register_write / unregister
register_read(W, fd) == [W EXCEPT !.readmap = @ \cup {fd}]

register_write(W, fd) == [W EXCEPT !.writemap = @ \cup {fd}]

unregister(W, fd) ==
    [W EXCEPT !.readmap = @ \ {fd}, !.writemap = @ \ {fd},
              !.trace = Append(@, <<"unregister", fd>>)]

\* file.close() on the task's end of a pipe
close(W, fd) == [W EXCEPT !.trace = Append(@, <<"close", fd>>)]

\* The errno of the OSError the next system call on fd raises ("" for none),
\* and str(e) of that error.
Fault(W, fd) == IF fd \in DOMAIN W.oracle.err THEN W.oracle.err[fd] ELSE ""

StrError(e) ==
    IF e = "EPIPE" THEN "[Errno 32] Broken pipe"
    ELSE IF e = "EIO" THEN "[Errno 5] Input/output error"
    ELSE "[Errno 4] Interrupted system call"

\* ------------------------------------------------------------------ Writer
\* f with key k bound to v (a dict assignment).
Put(f, k, v) == [x \in DOMAIN f \cup {k} |-> IF x = k THEN v ELSE f[x]]

\* No Writer (writer = None in run()).  started: run() made one; alive: its
\* thread runs; files: filename -> the file object (open, content);
\* sent: history, the payloads enqueued for each file, concatenated;
\* kinds: history, filename -> the kinds of the items enqueued for it, in order;
\* opened: history, the pairs of names open_files returned, in order;
\* error: the exception that ended the thread ("" for none).
NoWriter ==
    [started |-> FALSE, alive |-> FALSE, queue |-> <<>>, files |-> <<>>,
     host_counts |-> <<>>, sent |-> <<>>, kinds |-> <<>>, opened |-> <<>>,
     error |-> ""]

\* A (filename, data) item of the queue; kind tells the OPEN, EOF and ABORT
\* sentinels from a payload.
Msg(f, kind, data) == [file |-> f, kind |-> kind, data |-> data]

\* self.queue.put(m)
Writer_put(Wr, m) ==
    [Wr EXCEPT !.queue = Append(@, m),
               !.kinds = Put(@, m.file,
                             Append(IF m.file \in DOMAIN @ THEN @[m.file] ELSE <<>>,
                                    m.kind))]

\* Writer(outdir, errdir); writer.start()
Writer_start == [NoWriter EXCEPT !.started = TRUE, !.alive = TRUE]

\* Writer.open_files(host): the writer after the call and the pair of names.
Writer_open_files(Wr, h) ==
    LET count == IF h \in DOMAIN Wr.host_counts THEN Wr.host_counts[h] ELSE 0
        filename == IF count # 0 THEN h \o "." \o ToString(count) ELSE h
        outfile == IF outdir # "" THEN outdir \o "/" \o filename ELSE ""
        errfile == IF errdir # "" THEN errdir \o "/" \o filename ELSE ""
        W0 == [Wr EXCEPT !.host_counts = Put(@, h, count + 1),
                         !.opened = Append(@, <<outfile, errfile>>)]
        W1 == IF outfile # "" THEN Writer_put(W0, Msg(outfile, "OPEN", "")) ELSE W0
        W2 == IF errfile # "" THEN Writer_put(W1, Msg(errfile, "OPEN", "")) ELSE W1
    IN  IF outdir # "" \/ errdir # ""
        THEN [writer |-> W2, outfile |-> outfile, errfile |-> errfile]
        ELSE [writer |-> [Wr EXCEPT !.opened = Append(@, <<"", "">>)],
              outfile |-> "", errfile |-> ""]

\* Writer.write(filename, data)
Writer_write(Wr, f, data) ==
    [Writer_put(Wr, Msg(f, "DATA", data))
        EXCEPT !.sent = Put(@, f, (IF f \in DOMAIN @ THEN @[f] ELSE "") \o data)]

\* Writer.close(filename)
Writer_close(Wr, f) == Writer_put(Wr, Msg(f, "EOF", ""))

\* Writer.signal_quit()
Writer_signal_quit(Wr) == [Wr EXCEPT !.queue = Append(@, Msg("", "ABORT", ""))]

\* Mutant of Writer_process: a payload replaces what the file holds.
Writer_process_Truncate(Wr, m) ==
    IF m.kind = "ABORT" THEN [Wr EXCEPT !.alive = FALSE]
    ELSE IF m.kind = "OPEN"
    THEN [Wr EXCEPT !.files = Put(@, m.file, [open |-> TRUE, content |-> ""])]
    ELSE IF m.kind = "EOF"
    THEN [Wr EXCEPT !.files[m.file].open = FALSE]
    ELSE [Wr EXCEPT !.files[m.file].content = m.data]

\* Mutant of Writer_process: a payload is written at the start of the file.
Writer_process_Prepend(Wr, m) ==
    IF m.kind = "ABORT" THEN [Wr EXCEPT !.alive = FALSE]
    ELSE IF m.kind = "OPEN"
    THEN [Wr EXCEPT !.files = Put(@, m.file, [open |-> TRUE, content |-> ""])]
    ELSE IF m.kind = "EOF"
    THEN [Wr EXCEPT !.files[m.file].open = FALSE]
    ELSE [Wr EXCEPT !.files[m.file].content = m.data \o @]

\* Writer.run, the body of its loop for the item m taken from the queue.  An
\* exception (no file of that name in self.files, a write to a closed file)
\* ends the thread; closing a closed file does nothing.
Writer_process(Wr, m) ==
    IF m.kind = "ABORT" THEN [Wr EXCEPT !.alive = FALSE]
    ELSE IF m.kind = "OPEN"
    THEN [Wr EXCEPT !.files = Put(@, m.file, [open |-> TRUE, content |-> ""])]
    ELSE IF m.file \notin DOMAIN Wr.files
    THEN [Wr EXCEPT !.alive = FALSE, !.error = "KeyError"]
    ELSE IF m.kind = "EOF"
    THEN [Wr EXCEPT !.files[m.file].open = FALSE]
    ELSE IF ~Wr.files[m.file].open
    THEN [Wr EXCEPT !.alive = FALSE, !.error = "ValueError: I/O operation on closed file"]
    ELSE [Wr EXCEPT !.files[m.file].content = @ \o m.data]

\* Mutant of Task_start: every child is given node number 0.
Task_start_Node0(W, t, nodenum) ==
    LET W1 == [W EXCEPT !.kid[t] = Popen,
                        !.task[t].proc = TRUE,
                        !.task[t].nodenum = Some(0),
                        !.task[t].elapsed = 0]
        W3 == register_read([W1 EXCEPT !.task[t].stdout = TRUE], Fd(t, "stdout"))
    IN  register_read([W3 EXCEPT !.task[t].stderr = TRUE], Fd(t, "stderr"))

\* Task.start(nodenum, iomap, writer, askpass_socket)
Task_start(W, t, nodenum) ==
    LET o  == Writer_open_files(W.writer, host[t])
        W0 == IF W.writer.started
              THEN [W EXCEPT !.writer = o.writer,
                             !.task[t].outfile = o.outfile,
                             !.task[t].errfile = o.errfile,
                             !.task[t].outname = o.outfile,
                             !.task[t].errname = o.errfile]
              ELSE W
        W1 == [W0 EXCEPT !.kid[t] = Popen,
                         !.task[t].proc = TRUE,
                         !.task[t].nodenum = Some(nodenum),
                         !.task[t].elapsed = 0]
        W2 == IF inputbuffer # ""
              THEN register_write([W1 EXCEPT !.task[t].stdin = TRUE], Fd(t, "stdin"))
              ELSE W1                      \* self.proc.stdin.close()
        W3 == register_read([W2 EXCEPT !.task[t].stdout = TRUE], Fd(t, "stdout"))
    IN  register_read([W3 EXCEPT !.task[t].stderr = TRUE], Fd(t, "stderr"))

\* os.kill(-pid, SIGKILL): a child that still runs is doomed; one that is gone
\* is not affected (the OSError is swallowed).
os_kill(K) ==
    IF K.state \in {"alive", "closed"} THEN [K EXCEPT !.sig = TRUE] ELSE K

\* Task._kill
Task_kill(W, t) ==
    IF W.task[t].proc
    THEN [W EXCEPT !.kid[t] = os_kill(@),
                   !.task[t].sigkills = @ + 1,
                   !.task[t].killed = TRUE]
    ELSE W

\* Mutant of Task_timedout: the task is killed and tagged whether or not it
\* was killed before.
Task_timedout_Unguarded(W, t) ==
    [Task_kill([W EXCEPT !.task[t] = Note(@, "timedout")], t)
        EXCEPT !.task[t].failures = Append(@, "Timed out")]

\* Task.timedout
Task_timedout(W, t) ==
    LET W0 == [W EXCEPT !.task[t] = Note(@, "timedout")]
    IN  IF ~W0.task[t].killed
        THEN [Task_kill(W0, t) EXCEPT !.task[t].failures = Append(@, "Timed out")]
        ELSE W0

\* Mutant of Task_interrupted: the task is killed and tagged whether or not it
\* was killed before.
Task_interrupted_Unguarded(W, t) ==
    [Task_kill([W EXCEPT !.task[t] = Note(@, "interrupted")], t)
        EXCEPT !.task[t].failures = Append(@, "Interrupted")]

\* Mutant of Task_interrupted: the status the kill will give is stored at once.
Task_interrupted_SetsStatus(W, t) ==
    LET W0 == [W EXCEPT !.task[t] = Note(@, "interrupted")]
    IN  IF ~W0.task[t].killed
        THEN [Task_kill(W0, t) EXCEPT !.task[t].failures = Append(@, "Interrupted"),
                                      !.task[t].exitstatus = Some(-SIGKILL)]
        ELSE W0

\* Task.interrupted
Task_interrupted(W, t) ==
    LET W0 == [W EXCEPT !.task[t] = Note(@, "interrupted")]
    IN  IF ~W0.task[t].killed
        THEN [Task_kill(W0, t) EXCEPT !.task[t].failures = Append(@, "Interrupted")]
        ELSE W0

\* Mutant of Task_cancel: the task is tagged as an interrupted one.
Task_cancel_Interrupted(W, t) ==
    [W EXCEPT !.task[t] = Note([@ EXCEPT !.failures = Append(@, "Interrupted")], "cancel")]

\* Task.cancel
Task_cancel(W, t) ==
    [W EXCEPT !.task[t] = Note([@ EXCEPT !.failures = Append(@, "Cancelled")], "cancel")]

\* Task.elapsed: time.time() - self.timestamp
Task_elapsed(W, t) == W.task[t].elapsed

\* Popen.poll(): waitpid(WNOHANG). None while the child has not exited.
Popen_poll(K) == IF K.state \in {"dead", "reaped"} THEN K.status ELSE None

\* Mutant of message: an exit code of 1 is not reported.
message_Above1(n) ==
    IF n < 0 THEN <<"Killed by signal " \o ToString(-n)>>
    ELSE IF n > 1 THEN <<"Exited with error code " \o ToString(n)>>
    ELSE <<>>

\* Mutant of message: the signal number is not negated back.
message_RawStatus(n) ==
    IF n < 0 THEN <<"Killed by signal " \o ToString(n)>>
    ELSE IF n > 0 THEN <<"Exited with error code " \o ToString(n)>>
    ELSE <<>>

\* Task.running, the failure appended for exit status n (none for 0).
message(n) ==
    IF n < 0 THEN <<"Killed by signal " \o ToString(-n)>>
    ELSE IF n > 0 THEN <<"Exited with error code " \o ToString(n)>>
    ELSE <<>>

\* Mutant of Task_running: a killed task is not waited for while its pipes
\* are open.
Task_running_KilledFirst(W, t) ==
    LET T == W.task[t]
        st == Popen_poll(W.kid[t])
    IN  IF ~T.killed /\ (T.stdin \/ T.stdout \/ T.stderr)
        THEN [W |-> W, ret |-> TRUE]
        ELSE IF T.proc
        THEN IF st = None
             THEN IF T.killed
                  THEN [W |-> [W EXCEPT !.task[t].exitstatus = Some(-SIGKILL)],
                        ret |-> FALSE]
                  ELSE [W |-> W, ret |-> TRUE]
             ELSE [W |-> [W EXCEPT !.task[t].exitstatus = st,
                                   !.task[t].failures = @ \o message(st[1]),
                                   !.task[t].proc = FALSE,
                                   !.kid[t].state = "reaped"],
                   ret |-> FALSE]
        ELSE [W |-> W, ret |-> FALSE]

\* Mutant of Task_running: with the three pipes closed the task is over, whether
\* or not its child has exited.
Task_running_PipesOnly(W, t) ==
    LET T == W.task[t]
        st == Popen_poll(W.kid[t])
    IN  IF T.stdin \/ T.stdout \/ T.stderr
        THEN [W |-> W, ret |-> TRUE]
        ELSE IF T.proc
        THEN IF st = None
             THEN [W |-> [W EXCEPT !.task[t].exitstatus = Some(-SIGKILL)],
                   ret |-> FALSE]
             ELSE [W |-> [W EXCEPT !.task[t].exitstatus = st,
                                   !.task[t].failures = @ \o message(st[1]),
                                   !.task[t].proc = FALSE,
                                   !.kid[t].state = "reaped"],
                   ret |-> FALSE]
        ELSE [W |-> W, ret |-> FALSE]

\* Task.running: the task after the call (World) and what the call returned (ret).
Task_running(W, t) ==
    LET T == W.task[t]
        st == Popen_poll(W.kid[t])
    IN  IF T.stdin \/ T.stdout \/ T.stderr
        THEN [W |-> W, ret |-> TRUE]
        ELSE IF T.proc
        THEN IF st = None
             THEN IF T.killed
                  THEN [W |-> [W EXCEPT !.task[t].exitstatus = Some(-SIGKILL)],
                        ret |-> FALSE]
                  ELSE [W |-> W, ret |-> TRUE]
             ELSE [W |-> [W EXCEPT !.task[t].exitstatus = st,
                                   !.task[t].failures = @ \o message(st[1]),
                                   !.task[t].proc = FALSE,
                                   !.kid[t].state = "reaped"],
                   ret |-> FALSE]
        ELSE [W |-> W, ret |-> FALSE]

\* os.read(fd, BUFFER_SIZE) on the stdout pipe: what is in the pipe, one chunk
\* at most; "" at end of file.
os_read_out(K) == SubSeq(K.out, K.nout + 1, Min(Len(K.out), K.nout + BUFFER_SIZE))

os_read_err(K) == SubSeq(K.err, K.nerr + 1, Min(Len(K.err), K.nerr + BUFFER_SIZE))

\* Task.close_stdin
Task_close_stdin(W, t) ==
    IF W.task[t].stdin
    THEN [close(unregister(W, Fd(t, "stdin")), Fd(t, "stdin")) EXCEPT !.task[t].stdin = FALSE]
    ELSE W

\* Task.log_exception (verbose off): str(e) is appended to failures.
Task_log_exception(W, t, e) == [W EXCEPT !.task[t].failures = Append(@, e)]

\* os.write(fd, chunk) on the stdin pipe of task t: the errno it fails with
\* (EPIPE once the child no longer holds the other end), or "" and the number
\* of bytes the pipe took, at least one.
os_write(W, t, chunk) ==
    LET e == Fault(W, Fd(t, "stdin"))
    IN  IF e # "" THEN [errno |-> e, n |-> 0]
        ELSE IF W.kid[t].state # "alive" THEN [errno |-> "EPIPE", n |-> 0]
        ELSE [errno |-> "", n |-> Min(Len(chunk), W.oracle.count)]

\* Mutant of Task_handle_stdin: the cursor is set to what os.write returned.
Task_handle_stdin_Restart(W, t) ==
    LET start == W.task[t].byteswritten
        chunk == SubSeq(inputbuffer, start + 1,
                        Min(Len(inputbuffer), start + BUFFER_SIZE))
        w == os_write(W, t, chunk)
    IN  IF start < Len(inputbuffer)
        THEN IF w.errno = ""
             THEN [W EXCEPT !.task[t].byteswritten = w.n,
                            !.kid[t].inp = @ \o SubSeq(chunk, 1, w.n)]
             ELSE IF w.errno # "EINTR"
             THEN Task_log_exception(Task_close_stdin(W, t), t, StrError(w.errno))
             ELSE W
        ELSE Task_close_stdin(W, t)

\* Task.handle_stdin: the rest of inputbuffer (BUFFER_SIZE bytes at most) is
\* handed to os.write and the cursor moves by what it returned.  When nothing
\* is left the pipe is closed.
Task_handle_stdin(W, t) ==
    LET start == W.task[t].byteswritten
        chunk == SubSeq(inputbuffer, start + 1,
                        Min(Len(inputbuffer), start + BUFFER_SIZE))
        w == os_write(W, t, chunk)
    IN  IF start < Len(inputbuffer)
        THEN IF w.errno = ""
             THEN [W EXCEPT !.task[t].byteswritten = start + w.n,
                            !.kid[t].inp = @ \o SubSeq(chunk, 1, w.n)]
             ELSE IF w.errno # "EINTR"
             THEN Task_log_exception(Task_close_stdin(W, t), t, StrError(w.errno))
             ELSE W
        ELSE Task_close_stdin(W, t)

\* Mutant of Task_close_stdout: the spill file is not closed.
Task_close_stdout_KeepFile(W, t) ==
    IF W.task[t].stdout
    THEN [close(unregister(W, Fd(t, "stdout")), Fd(t, "stdout"))
             EXCEPT !.task[t].stdout = FALSE]
    ELSE W

\* Task.close_stdout
Task_close_stdout(W, t) ==
    LET W1 == IF W.task[t].stdout
              THEN [close(unregister(W, Fd(t, "stdout")), Fd(t, "stdout"))
                       EXCEPT !.task[t].stdout = FALSE]
              ELSE W
    IN  IF W1.task[t].outfile # ""
        THEN [W1 EXCEPT !.writer = Writer_close(@, W1.task[t].outfile),
                        !.task[t].outfile = ""]
        ELSE W1

\* Mutant of Task_close_stderr: the pipe is closed before its fd is unregistered.
Task_close_stderr_CloseFirst(W, t) ==
    LET W1 == IF W.task[t].stderr
              THEN [unregister(close(W, Fd(t, "stderr")), Fd(t, "stderr"))
                       EXCEPT !.task[t].stderr = FALSE]
              ELSE W
    IN  IF W1.task[t].errfile # ""
        THEN [W1 EXCEPT !.writer = Writer_close(@, W1.task[t].errfile),
                        !.task[t].errfile = ""]
        ELSE W1

\* Task.close_stderr
Task_close_stderr(W, t) ==
    LET W1 == IF W.task[t].stderr
              THEN [close(unregister(W, Fd(t, "stderr")), Fd(t, "stderr"))
                       EXCEPT !.task[t].stderr = FALSE]
              ELSE W
    IN  IF W1.task[t].errfile # ""
        THEN [W1 EXCEPT !.writer = Writer_close(@, W1.task[t].errfile),
                        !.task[t].errfile = ""]
        ELSE W1

\* Mutant of Task_handle_stdout: a chunk replaces the buffer.
Task_handle_stdout_Overwrite(W, t) ==
    LET buf == os_read_out(W.kid[t])
    IN  IF buf # ""
        THEN [W EXCEPT !.kid[t].nout = @ + Len(buf),
                       !.kid[t].outreads = @ + 1,
                       !.task[t].outputbuffer =
                           IF inline_stdout
                           THEN IF quiet THEN host[t] \o ": " \o buf ELSE buf
                           ELSE @,
                       !.writer = IF W.task[t].outfile # ""
                                  THEN Writer_write(@, W.task[t].outfile, buf)
                                  ELSE @]
        ELSE Task_close_stdout(W, t)

\* Task.handle_stdout
Task_handle_stdout(W, t) ==
    LET buf == os_read_out(W.kid[t])
        e == Fault(W, Fd(t, "stdout"))
    IN  IF e # ""
        THEN IF e # "EINTR"
             THEN Task_log_exception(Task_close_stdout(W, t), t, StrError(e))
             ELSE W
        ELSE IF buf # ""
        THEN [W EXCEPT !.kid[t].nout = @ + Len(buf),
                       !.kid[t].outreads = @ + 1,
                       !.task[t].outputbuffer =
                           IF inline_stdout
                           THEN IF quiet THEN @ \o host[t] \o ": " \o buf
                                ELSE @ \o buf
                           ELSE @,
                       !.writer = IF W.task[t].outfile # ""
                                  THEN Writer_write(@, W.task[t].outfile, buf)
                                  ELSE @]
        ELSE Task_close_stdout(W, t)

\* Mutant of Task_handle_stderr: EINTR is handled as any other error.
Task_handle_stderr_EintrCloses(W, t) ==
    LET buf == os_read_err(W.kid[t])
        e == Fault(W, Fd(t, "stderr"))
    IN  IF e # ""
        THEN Task_log_exception(Task_close_stderr(W, t), t, StrError(e))
        ELSE IF buf # ""
        THEN [W EXCEPT !.kid[t].nerr = @ + Len(buf),
                       !.task[t].errorbuffer = IF inline THEN @ \o buf ELSE @,
                       !.writer = IF W.task[t].errfile # ""
                                  THEN Writer_write(@, W.task[t].errfile, buf)
                                  ELSE @]
        ELSE Task_close_stderr(W, t)

\* Task.handle_stderr
Task_handle_stderr(W, t) ==
    LET buf == os_read_err(W.kid[t])
        e == Fault(W, Fd(t, "stderr"))
    IN  IF e # ""
        THEN IF e # "EINTR"
             THEN Task_log_exception(Task_close_stderr(W, t), t, StrError(e))
             ELSE W
        ELSE IF buf # ""
        THEN [W EXCEPT !.kid[t].nerr = @ + Len(buf),
                       !.task[t].errorbuffer = IF inline THEN @ \o buf ELSE @,
                       !.writer = IF W.task[t].errfile # ""
                                  THEN Writer_write(@, W.task[t].errfile, buf)
                                  ELSE @]
        ELSE Task_close_stderr(W, t)

\* select / poll readiness of a registered read fd: bytes wait in the pipe, or
\* the child's end is closed (end of file, POLLHUP).
Readable(W, fd) ==
    LET K == W.kid[fd[1]]
    IN  \/ fd[2] = "stdout" /\ K.nout < Len(K.out)
        \/ fd[2] = "stderr" /\ K.nerr < Len(K.err)
        \/ K.state \in {"closed", "dead", "reaped"}

\* The fds in the order the descriptors were created.
RECURSIVE FdList(_)
FdList(n) ==
    IF n = 0 THEN <<>>
    ELSE FdList(n - 1) \o <<Fd(n, "stdin"), Fd(n, "stdout"), Fd(n, "stderr")>>

\* The handler registered for an fd.
Handler(W, fd) ==
    IF fd[2] = "stdout" THEN Task_handle_stdout(W, fd[1])
    ELSE IF fd[2] = "stderr" THEN Task_handle_stderr(W, fd[1])
    ELSE Task_handle_stdin(W, fd[1])

\* handler = self.readmap[fd] (self.writemap[fd]); handler(fd, self): a
\* KeyError leaves poll when the fd is not in the map.
Call(W, ev) ==
    IF ev.fd \in (IF ev.map = "r" THEN W.readmap ELSE W.writemap)
    THEN CHOOSE R \in {Handler(X, ev.fd) :
                           X \in {[W EXCEPT !.trace = Append(@, <<"call", ev.fd>>)]}} : TRUE
    ELSE [W EXCEPT !.error = TRUE]

\* for fd in rlist: ...; for fd in wlist: ... / for fd, event in event_list: ...
\* (X is the state one handler leaves, handed to the handlers after it)
RECURSIVE Dispatch(_, _)
Dispatch(W, evs) ==
    IF evs = <<>> \/ W.error THEN W
    ELSE CHOOSE R \in {Dispatch(X, T) : X \in {Call(W, Head(evs))}, T \in {Tail(evs)}} : TRUE

\* Mutant of Events: every event is reported twice.
Events_Twice(W) ==
    LET fds == FdList(NTasks)
        ready == SelectSeq(fds, LAMBDA fd : \/ fd \in W.readmap /\ Readable(W, fd)
                                            \/ fd \in W.writemap)
        evs == [k \in DOMAIN ready |->
                   [fd |-> ready[k], map |-> IF ready[k] \in W.readmap THEN "r" ELSE "w"]]
    IN  evs \o evs

\* What select.select / select.poll report: the registered read fds that are
\* readable and the registered write fds (a pipe with room, or a broken one, is
\* ready for writing).  select gives two lists, dispatched one after the
\* other; poll gives one list of (fd, event): POLLIN or POLLHUP for a read
\* end, POLLOUT or POLLERR for a write end.
Events(W) ==
    LET ev(fd, m) == [fd |-> fd, map |-> m]
        fds == FdList(NTasks)
        rlist == SelectSeq(fds, LAMBDA fd : fd \in W.readmap /\ Readable(W, fd))
        wlist == SelectSeq(fds, LAMBDA fd : fd \in W.writemap)
        ready == SelectSeq(fds, LAMBDA fd : \/ fd \in W.readmap /\ Readable(W, fd)
                                            \/ fd \in W.writemap)
    IN  IF iomap = "select"
        THEN [k \in DOMAIN rlist |-> ev(rlist[k], "r")]
             \o [k \in DOMAIN wlist |-> ev(wlist[k], "w")]
        ELSE [k \in DOMAIN ready |->
                 ev(ready[k], IF ready[k] \in W.readmap THEN "r" ELSE "w")]

\* IOMap.poll / PollIOMap.poll
IOMap_poll(W) ==
    IF W.readmap = {} /\ W.writemap = {}
    THEN W
    ELSE IF W.oracle.select = "EINTR"
    THEN W
    ELSE CHOOSE R \in {Dispatch(W, E) : E \in {Events(W)}} : TRUE

\* Mutant of Manager_finished: n is taken before the task is appended to done.
Manager_finished_StaleN(W, t) ==
    [W EXCEPT !.done = Append(W.done, t),
              !.finished_calls = Append(@, [task |-> t, n |-> Len(W.done)])]

\* Manager.finished
Manager_finished(W, t) ==
    LET d == Append(W.done, t)
        n == Len(d)
    IN  [W EXCEPT !.done = d,
                  !.finished_calls = Append(@, [task |-> t, n |-> n])]

\* Manager.interrupted
RECURSIVE InterruptRunning(_, _)
InterruptRunning(W, ts) ==
    IF ts = <<>> THEN W
    ELSE InterruptRunning(Manager_finished(Task_interrupted(W, Head(ts)), Head(ts)),
                          Tail(ts))

RECURSIVE CancelPending(_, _)
CancelPending(W, ts) ==
    IF ts = <<>> THEN W
    ELSE CancelPending(Manager_finished(Task_cancel(W, Head(ts)), Head(ts)), Tail(ts))

Manager_interrupted(W) == CancelPending(InterruptRunning(W, running), tasks)

\* Mutant of TimeoutRunning: a task is timed out only after its time is over,
\* not when it is up.
RECURSIVE TimeoutRunning_Late(_, _)
TimeoutRunning_Late(W, ts) ==
    IF ts = <<>> THEN W
    ELSE LET t == Head(ts)
             timeleft == timeout - Task_elapsed(W, t)
         IN  TimeoutRunning_Late(IF timeleft < 0 THEN Task_timedout(W, t) ELSE W,
                                 Tail(ts))

\* Manager.check_timeout: the timeout phase over self.running.
RECURSIVE TimeoutRunning(_, _)
TimeoutRunning(W, ts) ==
    IF ts = <<>> THEN W
    ELSE LET t == Head(ts)
             timeleft == timeout - Task_elapsed(W, t)
         IN  TimeoutRunning(IF timeleft <= 0 THEN Task_timedout(W, t) ELSE W, Tail(ts))

\* Mutant of Manager_check_timeout: only a negative timeout disables the phase.
Manager_check_timeout_ZeroOn(W) ==
    IF timeout < 0 THEN W ELSE TimeoutRunning(W, running)

Manager_check_timeout(W) ==
    IF timeout <= 0 THEN W ELSE TimeoutRunning(W, running)

\* Manager.check_timeout, what it returns: None without a timeout, else the
\* least time left of the running tasks whose time is not up, 0 if there is
\* none.
Manager_check_timeout_return(W) ==
    LET lefts == {timeout - Task_elapsed(W, t) : t \in Range(running)}
        min_timeleft == {x \in lefts : x > 0 /\ \A y \in lefts : y > 0 => x <= y}
    IN  IF timeout <= 0 THEN None
        ELSE IF min_timeleft = {} THEN Some(0)
        ELSE Some(CHOOSE x \in min_timeleft : TRUE)

\* The tasks the builder was handed, in the order of the calls of finished.
finished_tasks == [k \in DOMAIN finished_calls |-> finished_calls[k].task]

\* Error(msg, task)
Error(msg, t) == [error |-> TRUE, msg |-> msg, task |-> t]

\* Error.__str__
Error_str(e) ==
    IF task[e.task].errorbuffer # ""
    THEN e.msg \o ", Error output: " \o task[e.task].errorbuffer
    ELSE e.msg

\* The entry the builders of call/copy/slurp make for one finished task.
Entry(t) ==
    IF task[t].failures # <<>>
    THEN Error(Join(task[t].failures), t)
    ELSE [error |-> FALSE, rc |-> task[t].exitstatus, task |-> t,
          out |-> task[t].outputbuffer, err |-> task[t].errorbuffer]

\* _CallOutputBuilder.result: ret[task.host] = ... for task in finished_tasks
RECURSIVE BuildResult(_, _)
BuildResult(ret, ts) ==
    IF ts = <<>> THEN ret
    ELSE LET t == Head(ts)
             h == host[t]
         IN  BuildResult([x \in DOMAIN ret \cup {h} |-> IF x = h THEN Entry(t) ELSE ret[x]],
                         Tail(ts))

CallOutputBuilder_result == BuildResult(<<>>, finished_tasks)

\* Mutant of DefaultCallbacks_result: the statuses in the order of completion.
DefaultCallbacks_result_DoneOrder == [k \in DOMAIN done |-> task[done[k]].exitstatus]

\* DefaultCallbacks.result:
\* [task.exitstatus for task in manager.save_tasks if task in manager.done]
DefaultCallbacks_result ==
    LET ts == SelectSeq(save_tasks, LAMBDA t : t \in Range(done))
    IN  [k \in DOMAIN ts |-> task[ts[k]].exitstatus]

\* _SlurpOutputBuilder.result: as the builder of call, with the local path of
\* the host in a success tuple.
RECURSIVE BuildSlurpResult(_, _)
BuildSlurpResult(ret, ts) ==
    IF ts = <<>> THEN ret
    ELSE LET t == Head(ts)
             h == host[t]
             e == IF task[t].failures # <<>>
                  THEN Entry(t)
                  ELSE [error |-> FALSE, rc |-> task[t].exitstatus, task |-> t,
                        out |-> task[t].outputbuffer, err |-> task[t].errorbuffer,
                        localpath |-> IF h \in DOMAIN slurp.localdirs
                                      THEN slurp.localdirs[h] ELSE ""]
         IN  BuildSlurpResult([x \in DOMAIN ret \cup {h} |-> IF x = h THEN e ELSE ret[x]],
                              Tail(ts))

SlurpOutputBuilder_result == BuildSlurpResult(<<>>, finished_tasks)

\* self.callbacks.result(self), for the callbacks object of the run.
Callbacks_result ==
    IF callbacks = "default" THEN DefaultCallbacks_result
    ELSE IF callbacks = "slurp" THEN SlurpOutputBuilder_result
    ELSE CallOutputBuilder_result

\* ------------------------------------------------------------ Manager.run
\* Mutant of CanStart: the limit is not looked at.
CanStart_Unlimited == tasks # <<>>

\* Mutant of CanStart: the last slot is never filled.
CanStart_SpareSlot == tasks # <<>> /\ Len(running) < limit - 1

\* Mutant of CanStart: the limit test is off by one.
CanStart_OffByOne == tasks # <<>> /\ Len(running) <= limit

\* while self.tasks and len(self.running) < self.limit
CanStart == tasks # <<>> /\ Len(running) < limit

\* Mutant of WhilePc: the loop ends as soon as nothing runs.
WhilePc_RunningOnly(r, p) == IF r # <<>> THEN "poll" ELSE "result"

\* while self.running or self.tasks: the next position in run()
WhilePc(r, p) == IF r # <<>> \/ p # <<>> THEN "poll" ELSE "result"

\* run() up to the first update_tasks: the snapshot of the submitted tasks.
Run ==
    /\ pc = "run"
    /\ save_tasks' = tasks
    /\ writer' = IF outdir # "" \/ errdir # "" THEN Writer_start ELSE writer
    /\ pc' = "update"
    /\ UNCHANGED <<limit, timeout, tasks, running, done, taskcount, first_update, wait, ri,
                   still_running, finished_count, readmap, writemap, optvars, task,
                   finished_calls, result, kid>>

\* update_tasks: _start_tasks_once, one iteration of its loop.
StartTask ==
    /\ pc = "update"
    /\ CanStart
    /\ LET t == Head(tasks)
       IN  /\ tasks' = Tail(tasks)
           /\ running' = Append(running, t)
           /\ LET W == Task_start(World, t, taskcount)
              IN  /\ task' = W.task
                  /\ kid' = W.kid
                  /\ readmap' = W.readmap
                  /\ writemap' = W.writemap
                  /\ writer' = W.writer
    /\ taskcount' = taskcount + 1
    /\ UNCHANGED <<limit, timeout, save_tasks, done, pc, first_update, wait, ri, still_running,
                   finished_count, optvars, finished_calls, result>>

\* update_tasks: reap_tasks (once _start_tasks_once has returned), one
\* iteration of "for task in self.running".
ReapTask ==
    /\ pc = "update"
    /\ ~CanStart
    /\ ri <= Len(running)
    /\ LET t == running[ri]
           r == Task_running(World, t)
       IN  IF r.ret
           THEN /\ still_running' = Append(still_running, t)
                /\ finished_count' = finished_count
                /\ SetWorld(r.W)
           ELSE /\ still_running' = still_running
                /\ finished_count' = finished_count + 1
                /\ SetWorld(Manager_finished(r.W, t))
    /\ ri' = ri + 1
    /\ UNCHANGED <<limit, timeout, tasks, save_tasks, running, taskcount, pc,
                   first_update, wait, optvars, result>>

\* reap_tasks returns finished_count; update_tasks loops while it is non-zero,
\* then returns to run(): to the while test (first call) or to check_timeout.
EndReap ==
    /\ pc = "update"
    /\ ~CanStart
    /\ ri > Len(running)
    /\ running' = still_running
    /\ IF finished_count # 0
       THEN pc' = "update" /\ first_update' = first_update
       ELSE IF first_update
       THEN pc' = WhilePc(still_running, tasks) /\ first_update' = FALSE
       ELSE pc' = "timeout" /\ first_update' = first_update
    /\ ri' = 1
    /\ still_running' = <<>>
    /\ finished_count' = 0
    /\ UNCHANGED <<limit, timeout, tasks, save_tasks, done, taskcount, wait, readmap,
                   writemap, optvars, task, finished_calls, result, kid, writer>>

\* finally: if writer: writer.signal_quit(); writer.join()
Finally(Wr) == IF Wr.started THEN Writer_signal_quit(Wr) ELSE Wr

\* Mutant of ExitPc: run() is left without joining the Writer.
ExitPc_NoJoin(Wr, outcome) == outcome

\* Where run() is after signal_quit: at the join if there is a Writer, else out
\* of run() with the outcome ("returned", "raised", "failed").
ExitPc(Wr, outcome) == IF Wr.started THEN "join_" \o outcome ELSE outcome

\* Mutant of PollWait: only a missing wait is replaced.
PollWait_NoClamp(w) == IF w = None THEN 1 ELSE w[1]

\* if wait is None or wait < 1: wait = 1
PollWait(w) == IF w = None \/ w[1] < 1 THEN 1 ELSE w[1]

\* self.iomap.poll(wait), the system calls made in it answering as O says.  An
\* exception that leaves poll leaves run() through the finally clause.
PollWith(O) ==
    /\ pc = "poll"
    /\ wait' = Some(PollWait(wait))
    /\ \E R \in {IOMap_poll(X) : X \in {[World EXCEPT !.oracle = O]}} :
          /\ SetWorld([R EXCEPT !.writer = IF R.error THEN Finally(@) ELSE @])
          /\ pc' = IF R.error THEN ExitPc(writer, "failed") ELSE "update"
    /\ UNCHANGED <<limit, timeout, tasks, save_tasks, running, taskcount, first_update,
                   ri, still_running, finished_count, optvars, result>>

\* self.iomap.poll(wait) when no system call fails and every write is whole.
Poll == PollWith(NoFaults)

\* wait = self.check_timeout(), then the while test.
CheckTimeout ==
    /\ pc = "timeout"
    /\ wait' = Manager_check_timeout_return(World)
    /\ SetWorld(Manager_check_timeout(World))
    /\ pc' = WhilePc(running, tasks)
    /\ UNCHANGED <<limit, timeout, tasks, save_tasks, running, taskcount, first_update,
                   ri, still_running, finished_count, optvars, result>>

\* return self.callbacks.result(self), and the finally clause up to the join
Result ==
    /\ pc = "result"
    /\ result' = Callbacks_result
    /\ writer' = Finally(writer)
    /\ pc' = ExitPc(writer, "returned")
    /\ UNCHANGED <<limit, timeout, tasks, save_tasks, running, done, taskcount,
                   first_update, wait, ri, still_running, finished_count, readmap, writemap,
                   optvars, task, finished_calls, kid>>

\* except KeyboardInterrupt: self.interrupted(); raise, and the finally clause
\* up to the join
KeyboardInterrupt ==
    /\ pc \in {"update", "poll", "timeout", "result"}
    /\ SetWorld([Manager_interrupted(World) EXCEPT !.writer = Finally(@)])
    /\ pc' = ExitPc(writer, "raised")
    /\ UNCHANGED <<limit, timeout, tasks, save_tasks, running, taskcount, first_update, wait,
                   ri, still_running, finished_count, optvars, result>>

\* An exception that is not a KeyboardInterrupt leaves the try block: the
\* password server could not be started, or a callback raised.  Only the
\* finally clause runs.
Raise ==
    /\ pc = "update"
    /\ writer' = Finally(writer)
    /\ pc' = ExitPc(writer, "failed")
    /\ UNCHANGED <<limit, timeout, tasks, save_tasks, running, done, taskcount,
                   first_update, wait, ri, still_running, finished_count, readmap, writemap,
                   optvars, task, finished_calls, result, kid>>

\* writer.join() returns once the Writer thread has ended; run() is left.
Writer_join ==
    /\ pc \in {"join_returned", "join_raised", "join_failed"}
    /\ ~writer.alive
    /\ pc' = SubSeq(pc, 6, Len(pc))
    /\ UNCHANGED <<limit, timeout, tasks, save_tasks, running, done, taskcount,
                   first_update, wait, ri, still_running, finished_count, readmap, writemap,
                   optvars, task, finished_calls, result, kid, writer>>

\* Writer.run, one iteration: filename, data = self.queue.get(), blocking
\* while the queue is empty.
Writer_run ==
    /\ writer.alive
    /\ writer.queue # <<>>
    /\ writer' = Writer_process([writer EXCEPT !.queue = Tail(@)], Head(writer.queue))
    /\ UNCHANGED <<mvars, readmap, writemap, optvars, task, finished_calls, result, kid>>

\* ------------------------------------------------------- the environment
\* Time passes while the orchestrator waits: every started task ages a second.
Tick ==
    /\ pc = "poll"
    /\ \E t \in Range(running) : task[t].elapsed < MaxElapsed
    /\ task' = [t \in Tasks |->
                  IF t \in Range(running) /\ task[t].elapsed < MaxElapsed
                  THEN [task[t] EXCEPT !.elapsed = @ + 1]
                  ELSE task[t]]
    /\ UNCHANGED <<mvars, readmap, writemap, optvars, finished_calls, result, kid, writer>>

\* A running child writes one more byte to its stdout or to its stderr.
ChildWrite(t, stream) ==
    /\ pc = "poll"
    /\ kid[t].state = "alive"
    /\ \/ /\ stream = "stdout"
          /\ Len(kid[t].out) < cmd.nout
          /\ kid' = [kid EXCEPT ![t].out = @ \o OutByte(Len(@) + 1)]
       \/ /\ stream = "stderr"
          /\ Len(kid[t].err) < cmd.nerr
          /\ kid' = [kid EXCEPT ![t].err = @ \o ErrByte(Len(@) + 1)]
    /\ UNCHANGED <<mvars, readmap, writemap, optvars, task, finished_calls, result, writer>>

\* The child's ends of the pipes close: the child closed them and runs on, or
\* it is being torn down.
ChildClose(t) ==
    /\ pc = "poll"
    /\ kid[t].state = "alive"
    /\ kid' = [kid EXCEPT ![t].state = "closed"]
    /\ UNCHANGED <<mvars, readmap, writemap, optvars, task, finished_calls, result, writer>>

\* The child exits on its own, or dies of a signal the manager did not send:
\* while the orchestrator waits, or between a reap and the timeout phase.
ChildExit(t, st) ==
    /\ pc \in {"poll", "timeout"}
    /\ kid[t].state \in {"alive", "closed"}
    /\ ~kid[t].sig
    /\ kid' = [kid EXCEPT ![t].state = "dead", ![t].status = Some(st)]
    /\ UNCHANGED <<mvars, readmap, writemap, optvars, task, finished_calls, result, writer>>

\* The child dies of the manager's SIGKILL.
ChildDie(t) ==
    /\ pc = "poll"
    /\ kid[t].state \in {"alive", "closed"}
    /\ kid[t].sig
    /\ kid' = [kid EXCEPT ![t].state = "dead", ![t].status = Some(-SIGKILL)]
    /\ UNCHANGED <<mvars, readmap, writemap, optvars, task, finished_calls, result, writer>>

\* ------------------------------------------------------------------ Init
\* No call of slurp() is in progress.  pc: where the call is; hosts, dst,
\* localdir: its arguments and opts.localdir; exists: the directories there
\* are before the call; made: those os.makedirs made; localdirs: host -> local
\* path; error: the exception that left it.
NoSlurp ==
    [pc |-> "none", hosts |-> <<>>, dst |-> "", localdir |-> "", exists |-> {},
     made |-> {}, localdirs |-> <<>>, error |-> ""]

\* No askpass helper runs.  argv: the command line; verbose, address: the
\* environment variables PARALLAX_ASKPASS_VERBOSE and PARALLAX_ASKPASS_SOCKET
\* ("" for unset); listening: something accepts connections at the address;
\* readable: the read of the connection succeeds; password: what the server
\* sends; connected: history, sock.connect was called; stdout, stderr: what
\* was written; code: the exit status.
NoAskpass ==
    [pc |-> "none", argv |-> <<>>, verbose |-> "", address |-> "", listening |-> FALSE,
     readable |-> FALSE, password |-> "", connected |-> FALSE, stdout |-> "",
     stderr |-> "", code |-> None]

\* The timeouts of a run: none (0, the default, or negative) up to MaxTimeout.
RunTimeouts == {-1} \cup (DEFAULT_TIMEOUT..MaxTimeout)

\* What a child of the run may write: cmd.nout bytes of stdout, cmd.nerr of stderr.
Cmds(no, ne) == {[nout |-> a, nerr |-> b] : a \in no, b \in ne}

\* The options of a run, for the given choices, and a Manager and Tasks as
\* their constructors leave them.
Base(Limits, Timeouts, Quiets, Inlines, Cs, Cbs, Ins, Outdirs, Errdirs, Iomaps) ==
    /\ limit \in Limits
    /\ timeout \in Timeouts
    /\ save_tasks = <<>>
    /\ running = <<>>
    /\ done = <<>>
    /\ taskcount = 0
    /\ first_update = TRUE
    /\ ri = 1
    /\ still_running = <<>>
    /\ finished_count = 0
    /\ wait = None
    /\ iomap \in Iomaps
    /\ readmap = {}
    /\ writemap = {}
    /\ cmd \in Cs
    /\ quiet \in Quiets
    /\ inline \in Inlines
    /\ inline_stdout \in {b \in BOOLEAN : inline => b}
    /\ inputbuffer \in Ins
    /\ callbacks \in Cbs
    /\ outdir \in Outdirs
    /\ errdir \in Errdirs
    /\ writer = NoWriter
    /\ task = [t \in Tasks |-> NewTask]
    /\ finished_calls = <<>>
    /\ result = <<>>
    /\ kid = [t \in Tasks |-> NoKid]

\* The state after the Manager and the Tasks are built and add_task was called
\* for each of n tasks, for the given choices of the options.
Setup(Ns, Limits, Timeouts, Quiets, Inlines, Cs, Cbs, Ins, Outdirs, Errdirs, Iomaps) ==
    /\ Base(Limits, Timeouts, Quiets, Inlines, Cs, Cbs, Ins, Outdirs, Errdirs, Iomaps)
    /\ \E n \in Ns :
          /\ tasks = [k \in 1..n |-> k]
          /\ host \in {f \in [Tasks -> Hosts] :
                           \A t \in Tasks : (t = 1 \/ t > n) => f[t] = "h1"}
    /\ pc = "run"
    /\ slurp = NoSlurp
    /\ askpass = NoAskpass

\* Every scheduling choice, with the I/O flags of Options left at their defaults
\* (quiet off, inline on) and children that write one byte of stdout at most.
Init ==
    Setup(0..NTasks, 0..MaxLimit, RunTimeouts, {FALSE}, {TRUE}, Cmds({1}, {0}), {"call"},
          {""}, {""}, {""}, {"select"})

Next ==
    \/ Run
    \/ StartTask
    \/ ReapTask
    \/ EndReap
    \/ Poll
    \/ CheckTimeout
    \/ Result
    \/ KeyboardInterrupt
    \/ Tick
    \/ \E t \in Tasks, stream \in {"stdout", "stderr"} : ChildWrite(t, stream)
    \/ \E t \in Tasks : ChildClose(t)
    \/ \E t \in Tasks, st \in ExitCodes \cup {-s : s \in ForeignSignals} : ChildExit(t, st)
    \/ \E t \in Tasks : ChildDie(t)

Spec == Init /\ [][Next]_vars

\* One task, every combination of quiet, inline and inline_stdout, children that
\* write up to MaxOut bytes of stdout and MaxErr bytes of stderr.
InitIO ==
    Setup({1}, {1}, DEFAULT_TIMEOUT..MaxTimeout, BOOLEAN, BOOLEAN,
          Cmds({MaxOut}, {MaxErr}), {"call"}, {""}, {""}, {""}, {"select"})

SpecIO == InitIO /\ [][Next]_vars

\* A Manager used with its default callbacks, as the command line tools use it.
InitDefault ==
    Setup(0..NTasks, 1..MaxLimit, DEFAULT_TIMEOUT..MaxTimeout, {FALSE}, {TRUE},
          Cmds({1}, {0}), {"default"}, {""}, {""}, {""}, {"select"})

SpecDefault == InitDefault /\ [][Next]_vars

\* One task, with input for its child or without, with spill files for its
\* stdout, its stderr, both or neither; the Writer thread runs beside the
\* orchestrator, and run() may also be left by an exception.
InitWriter ==
    Setup({1}, {1}, DEFAULT_TIMEOUT..MaxTimeout, BOOLEAN, {TRUE},
          Cmds({MaxOut}, {MaxErr}), {"call"}, {"", "i"}, {"", "out"}, {"", "err"},
          {"select"})

NextWriter == Next \/ Writer_run \/ Writer_join \/ Raise

SpecWriter == InitWriter /\ [][NextWriter]_vars

\* Runs with any limit, negative ones included.
InitLimit ==
    Setup(0..NTasks, -1..MaxLimit, DEFAULT_TIMEOUT..MaxTimeout, {FALSE}, {TRUE},
          Cmds({1}, {0}), {"call"}, {""}, {""}, {""}, {"select"})

SpecLimit == InitLimit /\ [][Next]_vars

\* One task whose stdout, stderr or both are spilled to files under the
\* directory "d": outdir and errdir may name the same directory.
InitTokens ==
    Setup({1}, {1}, DEFAULT_TIMEOUT..MaxTimeout, {FALSE}, {TRUE}, Cmds({1}, {MaxErr}),
          {"call"}, {""}, {"", "d"}, {"", "d"}, {"select"})

SpecTokens == InitTokens /\ [][NextWriter]_vars

\* The first n bytes of the input given to the children.
Payload(n) == SubSeq("ijklmnop", 1, n)

\* The fds whose handlers a poll of the maps of W would call.
ReadyFds(W) == {Events(W)[k].fd : k \in DOMAIN Events(W)}

\* What the system calls of one poll may answer: a signal interrupts the wait
\* (EINTR), or for each ready fd os.read / os.write on it fails with an errno
\* ("" for none) and a write to a pipe takes count bytes at most.
Oracles(fds) ==
    {[err |-> e, count |-> c, select |-> ""] :
        e \in [fds -> {"", "EINTR", "EIO"}], c \in 1..MaxIn}
    \cup {[err |-> [fd \in fds |-> ""], count |-> MaxIn, select |-> "EINTR"]}

\* self.iomap.poll(wait), with system calls that fail or write in part.
PollFaulty == \E O \in Oracles(ReadyFds(World)) : PollWith(O)

\* One task, with a payload for its stdin or without, run over an IOMap or a
\* PollIOMap; reads and writes of the pipes may fail and the wait may be
\* interrupted.
InitFaults ==
    Setup({1}, {1}, DEFAULT_TIMEOUT..MaxTimeout, {FALSE}, {TRUE}, Cmds({1}, {1}),
          {"call"}, {"", Payload(MaxIn)}, {""}, {""}, {"select", "poll"})

NextFaults == Next \/ PollFaulty

SpecFaults == InitFaults /\ [][NextFaults]_vars

\* Runs with no timeout or a long one, over an IOMap or a PollIOMap.
InitWait ==
    Setup(1..NTasks, 1..MaxLimit, {DEFAULT_TIMEOUT, LongTimeout}, {FALSE}, {TRUE},
          Cmds({1}, {0}), {"call"}, {""}, {""}, {""}, {"select", "poll"})

SpecWait == InitWait /\ [][Next]_vars

\* ------------------------------------------------------------------ slurp
\* Mutant of isabs: the root directory alone is not taken for absolute.
isabs_NotRoot(path) == Len(path) > 1 /\ SubSeq(path, 1, 1) = "/"

\* os.path.isabs (posixpath)
isabs(path) == Len(path) >= 1 /\ SubSeq(path, 1, 1) = "/"

\* os.path.join(a, b) (posixpath)
join(a, b) ==
    IF isabs(b) THEN b
    ELSE IF a = "" \/ SubSeq(a, Len(a), Len(a)) = "/" THEN a \o b
    ELSE a \o "/" \o b

\* The directories slurp may find in the file system, the destinations and the
\* host lists it is called with.
Dsts == {"/abs/path", "/", "rel/path", "f", ""}

HostLists == {<<"h1">>, <<"h1", "h2">>}

\* if os.path.isabs(dst): raise ValueError(...)
Slurp_check ==
    /\ slurp.pc = "called"
    /\ slurp' = IF isabs(slurp.dst)
                THEN [slurp EXCEPT !.pc = "raised",
                                   !.error = "ValueError: slurp: Destination must be a relative path"]
                ELSE [slurp EXCEPT !.pc = "local_dirs"]
    /\ UNCHANGED <<mvars, readmap, writemap, host, cmd, quiet, inline, inline_stdout,
                   inputbuffer, callbacks, outdir, errdir, iomap, askpass, task,
                   finished_calls, result, kid, writer>>

\* The directory of a host under opts.localdir.
Slurp_dirname(h) == IF slurp.localdir # "" THEN join(slurp.localdir, h) ELSE h

\* localdirs = _slurp_make_local_dirs(hosts, dst, opts)
Slurp_make_local_dirs ==
    /\ slurp.pc = "local_dirs"
    /\ LET hs == Range(slurp.hosts)
           wanted == (IF slurp.localdir # "" THEN {slurp.localdir} ELSE {})
                     \cup {Slurp_dirname(h) : h \in hs}
       IN  slurp' = [slurp EXCEPT !.pc = "build",
                                  !.made = wanted \ slurp.exists,
                                  !.localdirs = [h \in hs |-> join(Slurp_dirname(h), slurp.dst)]]
    /\ UNCHANGED <<mvars, readmap, writemap, host, cmd, quiet, inline, inline_stdout,
                   inputbuffer, callbacks, outdir, errdir, iomap, askpass, task,
                   finished_calls, result, kid, writer>>

\* The directories for outdir and errdir are made, the Manager is built and
\* a Task is added for every host; manager.run() is called.
Slurp_build ==
    /\ slurp.pc = "build"
    /\ slurp' = [slurp EXCEPT !.pc = "run",
                              !.made = @ \cup (({outdir, errdir} \ {""}) \ slurp.exists)]
    /\ tasks' = [k \in 1..Len(slurp.hosts) |-> k]
    /\ pc' = "run"
    /\ UNCHANGED <<limit, timeout, save_tasks, running, done, taskcount, first_update,
                   wait, ri, still_running, finished_count, readmap, writemap, host, cmd,
                   quiet, inline, inline_stdout, inputbuffer, callbacks, outdir, errdir,
                   iomap, askpass, task, finished_calls, result, kid, writer>>

\* slurp(hosts, src, dst, opts) was called: no Manager yet, no Task.
InitSlurp ==
    /\ Base({MaxLimit}, {MaxTimeout}, {FALSE}, {TRUE}, Cmds({1}, {0}), {"slurp"},
            {""}, {""}, {""}, {"select"})
    /\ tasks = <<>>
    /\ pc = "none"
    /\ askpass = NoAskpass
    /\ \E hs \in HostLists, d \in Dsts, l \in {"", "dl"}, ex \in {{}, {"h1", "dl"}} :
          /\ slurp = [NoSlurp EXCEPT !.pc = "called", !.hosts = hs, !.dst = d,
                                     !.localdir = l, !.exists = ex]
          /\ host = [t \in Tasks |-> IF t <= Len(hs) THEN hs[t] ELSE "h1"]

NextSlurp == Slurp_check \/ Slurp_make_local_dirs \/ Slurp_build \/ Next

SpecSlurp == InitSlurp /\ [][NextSlurp]_vars

\* ---------------------------------------------------------- askpass helper
Whitespace == {" ", "\n", "\t"}

\* str.strip()
RECURSIVE strip(_)
strip(str) ==
    IF str = "" THEN ""
    ELSE IF SubSeq(str, 1, 1) \in Whitespace THEN strip(SubSeq(str, 2, Len(str)))
    ELSE IF SubSeq(str, Len(str), Len(str)) \in Whitespace
    THEN strip(SubSeq(str, 1, Len(str) - 1))
    ELSE str

Uppercase == "ABCDEFGHIJKLMNOPQRSTUVWXYZ"

Lowercase == "abcdefghijklmnopqrstuvwxyz"

\* str.lower()
RECURSIVE lower(_)
lower(str) ==
    IF str = "" THEN ""
    ELSE LET c == SubSeq(str, 1, 1)
             up == {i \in 1..Len(Uppercase) : SubSeq(Uppercase, i, i) = c}
         IN  (IF up = {} THEN c
              ELSE LET i == CHOOSE i \in up : TRUE IN SubSeq(Lowercase, i, i))
             \o lower(SubSeq(str, 2, Len(str)))

\* Mutant of endswith: the suffix may occur anywhere.
endswith_Anywhere(str, suffix) ==
    \E i \in 1..(Len(str) - Len(suffix) + 1) :
        SubSeq(str, i, i + Len(suffix) - 1) = suffix

\* str.endswith(suffix)
endswith(str, suffix) ==
    /\ Len(str) >= Len(suffix)
    /\ SubSeq(str, Len(str) - Len(suffix) + 1, Len(str)) = suffix

\* The prompts ssh calls the helper with.
Prompts ==
    {"Password:", "user@h1's password: ", "PASSWORD:\n", "password", "password:x",
     "Are you sure (yes/no)? ", "Enter passphrase for key:", ""}

\* sys.exit(n)
Askpass_exit(A, n) == [A EXCEPT !.pc = "exited", !.code = Some(n)]

\* askpass_main up to the test of the prompt.
Askpass_prompt ==
    /\ askpass.pc = "start"
    /\ askpass' =
          IF Len(askpass.argv) > 1
          THEN LET prompt == askpass.argv[2]
                   A == IF askpass.verbose # ""
                        THEN [askpass EXCEPT !.stderr =
                                 @ \o "parallax-askpass received prompt: \"" \o prompt
                                   \o "\"\n"]
                        ELSE askpass
               IN  IF ~endswith(lower(strip(prompt)), "password:")
                   THEN Askpass_exit([A EXCEPT !.stderr = @ \o prompt \o "\n"], 1)
                   ELSE [A EXCEPT !.pc = "getenv"]
          ELSE Askpass_exit([askpass EXCEPT !.stderr =
                                "Error: parallax-askpass called without a prompt.\n"], 1)
    /\ UNCHANGED <<mvars, readmap, writemap, host, cmd, quiet, inline, inline_stdout,
                   inputbuffer, callbacks, outdir, errdir, iomap, slurp, task,
                   finished_calls, result, kid, writer>>

\* address = os.getenv('PARALLAX_ASKPASS_SOCKET')
Askpass_getenv ==
    /\ askpass.pc = "getenv"
    /\ askpass' =
          IF askpass.address = ""
          THEN Askpass_exit([askpass EXCEPT !.stderr =
                                @ \o "parallax error: SSH requested a password.\n"], 1)
          ELSE [askpass EXCEPT !.pc = "connect"]
    /\ UNCHANGED <<mvars, readmap, writemap, host, cmd, quiet, inline, inline_stdout,
                   inputbuffer, callbacks, outdir, errdir, iomap, slurp, task,
                   finished_calls, result, kid, writer>>

\* sock.connect(address)
Askpass_connect ==
    /\ askpass.pc = "connect"
    /\ askpass' =
          IF askpass.listening
          THEN [askpass EXCEPT !.pc = "read", !.connected = TRUE]
          ELSE Askpass_exit([askpass EXCEPT !.connected = TRUE,
                                            !.stderr = @ \o "Couldn't bind to "
                                                         \o askpass.address \o "\n"], 2)
    /\ UNCHANGED <<mvars, readmap, writemap, host, cmd, quiet, inline, inline_stdout,
                   inputbuffer, callbacks, outdir, errdir, iomap, slurp, task,
                   finished_calls, result, kid, writer>>

\* password = sock.makefile().read(); print(password)
Askpass_read ==
    /\ askpass.pc = "read"
    /\ askpass' =
          IF askpass.readable
          THEN [askpass EXCEPT !.pc = "exited", !.code = Some(0),
                               !.stdout = @ \o askpass.password \o "\n"]
          ELSE Askpass_exit([askpass EXCEPT !.stderr = @ \o "Socket error.\n"], 3)
    /\ UNCHANGED <<mvars, readmap, writemap, host, cmd, quiet, inline, inline_stdout,
                   inputbuffer, callbacks, outdir, errdir, iomap, slurp, task,
                   finished_calls, result, kid, writer>>

\* ssh has started the helper: with a prompt or without, the environment set
\* by Task.start or not, the password server there or gone.
InitAskpass ==
    /\ Base({1}, {DEFAULT_TIMEOUT}, {FALSE}, {TRUE}, Cmds({0}, {0}), {"call"},
            {""}, {""}, {""}, {"select"})
    /\ tasks = <<>>
    /\ host = [t \in Tasks |-> "h1"]
    /\ pc = "none"
    /\ slurp = NoSlurp
    /\ \E args \in {<<"parallax-askpass">>} \cup {<<"parallax-askpass", p>> : p \in Prompts},
          v \in {"", "1"}, a \in {"", "/tmp/parallax.sock"}, l, r \in BOOLEAN :
          askpass = [NoAskpass EXCEPT !.pc = "start", !.argv = args, !.verbose = v,
                                      !.address = a, !.listening = l, !.readable = r,
                                      !.password = "secret"]

NextAskpass == Askpass_prompt \/ Askpass_getenv \/ Askpass_connect \/ Askpass_read

SpecAskpass == InitAskpass /\ [][NextAskpass]_vars

\* ------------------------------------------------------ Writer.open_files
\* The host strings tasks are started with (Task.pretty_host).
HostNames == {"h1", "h1.1", "h2"}

\* writer = Writer(self.outdir, self.errdir); writer.start()
Writer_create ==
    /\ pc = "none"
    /\ ~writer.started
    /\ outdir # "" \/ errdir # ""
    /\ writer' = Writer_start
    /\ UNCHANGED <<mvars, readmap, writemap, optvars, task, finished_calls, result, kid>>

\* self.outfile, self.errfile = writer.open_files(self.pretty_host), for the
\* next task started with this Writer.
OpenFiles ==
    /\ pc = "none"
    /\ writer.started
    /\ Len(writer.opened) < MaxOpens
    /\ \E h \in HostNames : writer' = Writer_open_files(writer, h).writer
    /\ UNCHANGED <<mvars, readmap, writemap, optvars, task, finished_calls, result, kid>>

\* The options of a run with an outdir, an errdir or both, before its Writer
\* is made.
InitOpenFiles ==
    /\ Base({1}, {DEFAULT_TIMEOUT}, {FALSE}, {TRUE}, Cmds({0}, {0}), {"call"},
            {""}, {"", "out"}, {"", "err"}, {"select"})
    /\ outdir # "" \/ errdir # ""
    /\ tasks = <<>>
    /\ host = [t \in Tasks |-> "h1"]
    /\ pc = "none"
    /\ slurp = NoSlurp
    /\ askpass = NoAskpass

NextOpenFiles == Writer_create \/ OpenFiles \/ Writer_run

SpecOpenFiles == InitOpenFiles /\ [][NextOpenFiles]_vars

\* A run that no keyboard interrupt ends.  The orchestrator keeps taking steps,
\* time keeps passing while it waits, and a child sent SIGKILL dies.
ManagerStep == Run \/ StartTask \/ ReapTask \/ EndReap \/ Poll \/ CheckTimeout \/ Result

NextNoInterrupt ==
    \/ ManagerStep
    \/ Tick
    \/ \E t \in Tasks, stream \in {"stdout", "stderr"} : ChildWrite(t, stream)
    \/ \E t \in Tasks : ChildClose(t)
    \/ \E t \in Tasks, st \in ExitCodes \cup {-s : s \in ForeignSignals} : ChildExit(t, st)
    \/ \E t \in Tasks : ChildDie(t)

Fairness ==
    /\ WF_vars(ManagerStep)
    /\ SF_vars(Tick)
    /\ \A t \in Tasks : SF_vars(ChildDie(t))

SpecFair == Init /\ [][NextNoInterrupt]_vars /\ Fairness

\* A child ends: killed by the manager's SIGKILL, or, when there is no timeout
\* to kill it, on its own.
ChildEnds(t) ==
    \/ ChildDie(t)
    \/ /\ timeout <= 0
       /\ \E st \in ExitCodes \cup {-s : s \in ForeignSignals} : ChildExit(t, st)

\* At least one task submitted, any limit; no keyboard interrupt; every
\* started child exits in the end, on its own or killed after its timeout.
InitTerm ==
    Setup(1..NTasks, -1..MaxLimit, DEFAULT_TIMEOUT..MaxTimeout, {FALSE}, {TRUE},
          Cmds({1}, {0}), {"call"}, {""}, {""}, {""}, {"select"})

SpecTerm ==
    /\ InitTerm
    /\ [][NextNoInterrupt]_vars
    /\ WF_vars(ManagerStep)
    /\ SF_vars(Tick)
    /\ \A t \in Tasks : SF_vars(ChildEnds(t))

\* ----------------------------------------------------------------- claims
\* How many times task t was handed to callbacks.finished.
Delivered(t) == Cardinality({k \in DOMAIN finished_calls : finished_calls[k].task = t})

\* The tasks submitted with add_task (the snapshot run() takes).
Submitted == Range(save_tasks)

\* Task t was started (Task.start ran).
Started(t) == task[t].nodenum # None

\* C1. Bounded parallelism: with a limit of at least 1, the number of tasks in
\* Manager.running never exceeds the limit, in any state of run(), the states
\* inside update_tasks between a start and the next reap included.
C1_BoundedParallelism == limit >= 1 => Len(running) <= limit

\* C1 witness: update_tasks has filled every slot and tasks still wait.
C1_Witness ==
    /\ limit >= 1
    /\ Len(running) = limit
    /\ tasks # <<>>
    /\ pc = "update"

\* C2. In a run no keyboard interrupt ends, callbacks.finished is called once
\* for every submitted task, in the order the tasks were moved to done, and the
\* n of the k-th call is k: 1, 2, ..., N when run() returns.
C2_FinishedOnceInOrder ==
    pc # "raised" =>
        /\ \A k \in DOMAIN finished_calls :
              finished_calls[k].n = k /\ finished_calls[k].task = done[k]
        /\ Len(finished_calls) = Len(done)
        /\ \A t \in Tasks : Delivered(t) <= 1
        /\ pc = "returned" =>
              /\ Len(finished_calls) = Len(save_tasks)
              /\ \A t \in Submitted : Delivered(t) = 1

\* C2 witness: run() returned after two tasks finished in the reverse of the
\* order they were added in.
C2_Witness ==
    /\ pc = "returned"
    /\ Len(finished_calls) = 2
    /\ finished_calls[1].task = 2
    /\ finished_calls[2].n = 2

\* sub occurs in the string str.
Contains(str, sub) ==
    \E i \in 1..(Len(str) - Len(sub) + 1) : SubSeq(str, i, i + Len(sub) - 1) = sub

\* How many times tag occurs in the failures of task t.
Tagged(t, tag) ==
    Cardinality({k \in DOMAIN task[t].failures : task[t].failures[k] = tag})

\* Any of task t's three pipes is still open.
PipesOpen(t) == task[t].stdin \/ task[t].stdout \/ task[t].stderr

\* The child of task t has exited on its own or died of a foreign signal.
ExitedOnItsOwn(t) == kid[t].status # None /\ kid[t].status # Some(-SIGKILL)

\* One timeout phase: a running task whose time is up and that was not killed
\* before is killed by timedout(): one SIGKILL, 'Timed out' appended.
C3_TimeoutPhase ==
    (pc = "timeout" /\ pc' # "timeout" /\ timeout > 0) =>
        \A t \in Range(running) :
            (task[t].elapsed >= timeout /\ ~task[t].killed) =>
                /\ task'[t].killed
                /\ task'[t].sigkills = task[t].sigkills + 1
                /\ task'[t].failures = Append(task[t].failures, "Timed out")
                /\ kid[t].state \in {"alive", "closed"} => kid'[t].sig

C4_InterruptDeliversOnce ==
    pc = "raised" =>
        \A t \in Submitted :
            /\ Delivered(t) = 1
            /\ ~Started(t) => "cancel" \in Range(task[t].called)

\* C5. Every task handed to the result builder with a non-empty failures list
\* has an Error under its host in the returned map, its message the failure
\* tags joined by ', ', whatever the other tasks did.
C5_FailuresGiveError ==
    pc = "returned" =>
        \A t \in Range(finished_tasks) :
            task[t].failures # <<>> =>
                /\ host[t] \in DOMAIN result
                /\ result[host[t]].error
                /\ result[host[t]].msg = Join(task[t].failures)

C7_Tag(n) ==
    IF n > 0 THEN <<"Exited with error code " \o ToString(n)>>
    ELSE IF n < 0 THEN <<"Killed by signal " \o ToString(0 - n)>>
    ELSE <<>>

\* The step in which Task.running waits for the child of task t.
C7_Reap ==
    \A t \in Tasks :
        (kid[t].state = "dead" /\ kid'[t].state = "reaped") =>
            /\ ~PipesOpen(t)
            /\ task'[t].exitstatus = kid[t].status
            /\ task'[t].failures = task[t].failures \o C7_Tag(kid[t].status[1])

C8_BothTags ==
    \A t \in Tasks :
        (Started(t) /\ task[t].called = <<"timedout", "interrupted">>) =>
            /\ task[t].sigkills = 1
            /\ SelectSeq(task[t].failures,
                         LAMBDA f : f \in {"Timed out", "Interrupted"})
                 = <<"Timed out", "Interrupted">>

\* C8. Idempotent kill: timedout() and then interrupted() on the same started
\* task send exactly one SIGKILL to the process group; interrupted() finds the
\* task killed and does nothing, so failures holds 'Timed out' once and never
\* 'Interrupted'.
C8_IdempotentKill ==
    \A t \in Tasks :
        (Started(t) /\ task[t].called = <<"timedout", "interrupted">>) =>
            /\ task[t].sigkills = 1
            /\ task[t].killed
            /\ Tagged(t, "Timed out") = 1
            /\ Tagged(t, "Interrupted") = 0

\* C8 witness: a keyboard interrupt reached a task that had timed out.
C8_Witness ==
    /\ pc = "raised"
    /\ Started(1)
    /\ task[1].called = <<"timedout", "interrupted">>
    /\ task[1].sigkills = 1

AddIndex(t) == CHOOSE k \in DOMAIN save_tasks : save_tasks[k] = t

\* C12. Tasks are started in the order they were added with add_task: a task
\* is never started before one added earlier.  The k-th task started
\* (k = 0, 1, ...) gets nodenum k, so no two tasks share a nodenum, and
\* taskcount, the number of tasks started, never decreases.
C12_StartOrder ==
    /\ [](pc # "run" =>
            /\ \A t \in Submitted :
                 Started(t) =>
                     /\ \A u \in Submitted : AddIndex(u) < AddIndex(t) => Started(u)
                     /\ task[t].nodenum = Some(AddIndex(t) - 1)
            /\ \A t, u \in Submitted :
                 (Started(t) /\ Started(u) /\ t # u) => task[t].nodenum # task[u].nodenum
            /\ taskcount = Cardinality({t \in Submitted : Started(t)}))
    /\ [][taskcount' >= taskcount]_vars

\* C12 witness: with a limit of 1 the second task was started after the first
\* one had finished, and got nodenum 1.
C12_Witness ==
    /\ limit = 1
    /\ Len(save_tasks) = 2
    /\ done = <<1>>
    /\ running = <<2>>
    /\ task[1].nodenum = Some(0)
    /\ task[2].nodenum = Some(1)
    /\ taskcount = 2

\* C13. With timeout <= 0 no task is killed for running too long: timedout()
\* is never called, 'Timed out' is in no task's failures, and until a keyboard
\* interrupt a started task with a pipe open stays in running, not killed,
\* whatever its elapsed time.
C13_NoTimeout ==
    timeout <= 0 =>
        \A t \in Tasks :
            /\ "timedout" \notin Range(task[t].called)
            /\ Tagged(t, "Timed out") = 0
            /\ (pc # "raised" /\ Started(t) /\ PipesOpen(t)) =>
                   /\ t \in Range(running)
                   /\ t \notin Range(done)
                   /\ ~task[t].killed
                   /\ task[t].sigkills = 0

\* C13 witness: with a negative timeout, a task whose clock reached the
\* largest value followed finished on its own and run() returned.
C13_Witness ==
    /\ timeout < 0
    /\ pc = "returned"
    /\ task[1].elapsed = MaxElapsed
    /\ kid[1].outreads = 1
    /\ task[1].failures = <<>>
    /\ task[1].exitstatus = Some(0)

\* C17. A task the manager killed (timedout() or interrupted() set killed)
\* never has the tag of its own kill, 'Killed by signal 9', in its failures.
C17_NoSignalTagWhenKilled ==
    \A t \in Tasks :
        task[t].killed =>
            \A k \in DOMAIN task[t].failures :
                ~Contains(task[t].failures[k], "Killed by signal 9")

\* C18. A task cancelled while pending is never started: no child is spawned
\* for it, none of its fds is registered, its failures are exactly
\* ['Cancelled'], its exitstatus stays None, and it is delivered to
\* callbacks.finished, once, as done.
C18_CancelledNeverStarted ==
    \A t \in Tasks :
        "cancel" \in Range(task[t].called) =>
            /\ ~Started(t)
            /\ ~task[t].proc
            /\ kid[t].state = "none"
            /\ \A s \in {"stdin", "stdout", "stderr"} :
                 Fd(t, s) \notin readmap \cup writemap
            /\ ~PipesOpen(t)
            /\ task[t].failures = <<"Cancelled">>
            /\ task[t].exitstatus = None
            /\ t \in Range(done)
            /\ Delivered(t) = 1

\* C18 witness: a keyboard interrupt found task 1 running and task 2 pending.
C18_Witness ==
    /\ pc = "raised"
    /\ Started(1)
    /\ task[2].called = <<"cancel">>
    /\ finished_calls[Len(finished_calls)].task = 2

\* The steps of run() about callbacks.result.
C19_ResultStep ==
    /\ (pc' = "returned" /\ pc # "returned") =>
           /\ pc = "result"
           /\ tasks = <<>>
           /\ running = <<>>
           /\ \A t \in Submitted : Delivered(t) = 1
           /\ result' = Callbacks_result
    /\ result' # result => (pc = "result" /\ pc' = "returned")
    /\ pc = "returned" => (pc' = "returned" /\ result' = result)

\* C19. In a run no keyboard interrupt ends, callbacks.result(manager) is
\* called exactly once, only when pending and running are both empty and
\* finished was delivered for every submitted task, and run() returns the
\* value it returned.  When a keyboard interrupt ends run(), result is never
\* called.
C19_ResultOnce ==
    /\ [][C19_ResultStep]_vars
    /\ [](pc = "result" => (tasks = <<>> /\ running = <<>>))
    /\ [](pc = "raised" => result = <<>>)

\* C19 witness: run() returned the map built from two finished tasks.
C19_Witness ==
    /\ pc = "returned"
    /\ Len(save_tasks) = 2
    /\ Len(finished_calls) = 2
    /\ result = CallOutputBuilder_result
    /\ result # <<>>

\* C20. With the default callbacks run() returns the exit statuses of the
\* tasks in done in the order of submission (the save_tasks snapshot), not of
\* completion; after a normal run the list has one element per submitted task.
C20_DefaultResult ==
    (callbacks = "default" /\ pc = "returned") =>
        /\ Len(result) = Len(save_tasks)
        /\ \A k \in DOMAIN save_tasks : result[k] = task[save_tasks[k]].exitstatus

\* C20 witness: the second task finished first, with another status than the
\* first, and the list is in the order of submission.
C20_Witness ==
    /\ callbacks = "default"
    /\ pc = "returned"
    /\ done = <<2, 1>>
    /\ result = <<Some(1), Some(0)>>

\* What the spill file named f holds ("" while the Writer has not opened it).
Content(f) == IF f \in DOMAIN writer.files THEN writer.files[f].content ELSE ""

\* The Writer has processed the EOF of the file named f.
FileClosed(f) == f \in DOMAIN writer.files /\ ~writer.files[f].open

\* The payloads enqueued for the file named f so far, concatenated.
Sent(f) == IF f \in DOMAIN writer.sent THEN writer.sent[f] ELSE ""

\* The payloads for the file named f that wait in the queue q, concatenated.
RECURSIVE Pending(_, _)
Pending(q, f) ==
    IF q = <<>> THEN ""
    ELSE (IF Head(q).file = f /\ Head(q).kind = "DATA" THEN Head(q).data ELSE "")
         \o Pending(Tail(q), f)

Memberships(t) ==
    (IF t \in Range(tasks) THEN 1 ELSE 0)
    + (IF t \in Range(running) THEN 1 ELSE 0)
    + (IF t \in Range(done) THEN 1 ELSE 0)

\* C23. In every state of run(), the states inside a finished callback and the
\* states after a keyboard interrupt was handled included, each submitted task
\* is in exactly one of pending (Manager.tasks), running and done.
C23_ExactlyOneQueue == \A t \in Submitted : Memberships(t) = 1

\* What the call of Task.running in this step of reap_tasks returned.
ReapReturned == still_running' # still_running

\* C24 as the specification states it: Task.running returns false only when the
\* three pipes are closed and the child handle has been released.
C24_HandleReleased ==
    [][(pc = "update" /\ ri' = ri + 1 /\ ~ReapReturned) =>
           /\ ~PipesOpen(running[ri])
           /\ ~task'[running[ri]].proc]_vars

\* One call of Task.running by reap_tasks, on task t = running[ri].
C24_ReapStep ==
    (pc = "update" /\ ri' = ri + 1) =>
        LET t == running[ri]
        IN  /\ ReapReturned <=>
                 \/ PipesOpen(t)
                 \/ /\ task[t].proc
                    /\ kid[t].state \in {"alive", "closed"}
                    /\ ~task[t].killed
            /\ ~ReapReturned =>
                 /\ ~PipesOpen(t)
                 /\ task'[t].exitstatus # None
                 /\ \/ ~task'[t].proc /\ kid'[t].state = "reaped"
                    \/ /\ task'[t].proc
                       /\ task[t].killed
                       /\ kid'[t].state \in {"alive", "closed"}
                       /\ task'[t].exitstatus = Some(-SIGKILL)

\* C24. Until a keyboard interrupt, Task.running() returns true, and the
\* Manager keeps the task in running, exactly when one of its three pipes is
\* open, or all are closed and its child has not exited and was not killed by
\* the manager.  It returns false only with the three pipes closed, and then
\* the child handle was released (the child was reaped) or the task was killed,
\* its child has not exited yet, the handle is kept and exitstatus is -SIGKILL.
\* Between two passes of update_tasks a started task is in running if and only
\* if a pipe is open or the handle exists with exitstatus None.
C24_RunningIff ==
    /\ [][C24_ReapStep]_vars
    /\ [](pc \in {"poll", "timeout", "result"} =>
            \A t \in Submitted :
                Started(t) =>
                    /\ t \in Range(running) <=>
                           (PipesOpen(t) \/ (task[t].proc /\ task[t].exitstatus = None))
                    /\ t \in Range(running) <=> t \notin Range(done))

\* C24 witness: at the wait, one task is done with its child handle kept (it
\* timed out and its child had not exited when its pipes were closed), and
\* another is running with its three pipes closed and its child alive.
C24_Witness ==
    /\ pc = "poll"
    /\ \E t \in Range(done), u \in Range(running) :
         /\ task[t].proc
         /\ ~PipesOpen(t)
         /\ task[t].exitstatus = Some(-SIGKILL)
         /\ ~PipesOpen(u)
         /\ task[u].proc
         /\ task[u].exitstatus = None

C25_StatusStep ==
    \A t \in Tasks :
        task'[t].exitstatus # task[t].exitstatus =>
            /\ pc = "update"
            /\ ri' = ri + 1
            /\ t = running[ri]
            /\ task[t].exitstatus = None
            /\ task'[t].exitstatus # None
            /\ t \notin Range(done)
            /\ done' = Append(done, t)

PipeOpen(t, s) ==
    IF s = "stdin" THEN task[t].stdin
    ELSE IF s = "stdout" THEN task[t].stdout
    ELSE task[t].stderr

\* What one call of poll does in the current state when its system calls
\* answer as O says.
PollResult(O) == IOMap_poll([World EXCEPT !.oracle = O])

\* Event e occurs in the trace tr before position k.
Before(tr, k, e) == \E j \in 1..(k - 1) : tr[j] = e

\* C26. Every fd in the read map or the write map is an open pipe of a started
\* task that the Manager holds in running: a stdin only in the write map, a
\* stdout or stderr only in the read map.  In every poll, whatever its system
\* calls answer, a pipe is closed only after its fd was unregistered, and no
\* handler is called for an fd that was closed.
C26_RegisteredFdsOpen ==
    /\ \A fd \in readmap \cup writemap :
         /\ fd[1] \in Range(running)
         /\ Started(fd[1])
         /\ PipeOpen(fd[1], fd[2])
         /\ fd[2] = "stdin" => fd \in writemap /\ fd \notin readmap
         /\ fd[2] \in {"stdout", "stderr"} => fd \in readmap /\ fd \notin writemap
    /\ \A t \in Tasks, s \in {"stdin", "stdout", "stderr"} :
         PipeOpen(t, s) => Fd(t, s) \in readmap \cup writemap
    /\ pc = "poll" =>
         \A O \in Oracles(ReadyFds(World)) :
             LET tr == PollResult(O).trace
             IN  \A k \in DOMAIN tr :
                     /\ tr[k][1] = "close" => Before(tr, k, <<"unregister", tr[k][2]>>)
                     /\ tr[k][1] = "call" =>
                            /\ PipeOpen(tr[k][2][1], tr[k][2][2])
                            /\ ~Before(tr, k, <<"close", tr[k][2]>>)

\* C26 witness: at the wait, the stdin of a task is registered for writing and
\* its stdout for reading, its stderr was closed at end of file, and the poll
\* to come closes the stdout after a failed read.
C26_Witness ==
    /\ pc = "poll"
    /\ writemap = {Fd(1, "stdin")}
    /\ readmap = {Fd(1, "stdout")}
    /\ ~task[1].stderr
    /\ Fd(1, "stdout") \in ReadyFds(World)
    /\ \E O \in Oracles(ReadyFds(World)) :
         /\ O.err[Fd(1, "stdout")] = "EIO"
         /\ PollResult(O).trace
              = << <<"call", Fd(1, "stdout")>>, <<"unregister", Fd(1, "stdout")>>,
                   <<"close", Fd(1, "stdout")>>, <<"call", Fd(1, "stdin")>> >>

\* C27 as the specification states it: every call run() makes to iomap.poll
\* passes a timeout of at most 1 second.
C27_AtMostOneSecond == [][(pc = "poll" /\ pc' = "update") => wait'[1] <= 1]_vars

\* The call of iomap.poll: what run() passes, given what check_timeout returned.
C27_PollStep ==
    (pc = "poll" /\ pc' = "update") =>
        /\ wait'[1] >= 1
        /\ (wait = None \/ wait[1] < 1) => wait'[1] = 1
        /\ (wait # None /\ wait[1] >= 1) => wait' = wait
        /\ timeout <= 1 => wait'[1] = 1
        /\ timeout > 1 => wait'[1] <= timeout

\* The timeout phase: what check_timeout returns to run().
C27_CheckStep ==
    (pc = "timeout" /\ pc' \in {"poll", "result"}) =>
        LET left == {timeout - task[t].elapsed : t \in Range(running)} \cap (1..timeout)
        IN  /\ timeout <= 0 => wait' = None
            /\ (timeout > 0 /\ left = {}) => wait' = Some(0)
            /\ (timeout > 0 /\ left # {}) =>
                   /\ wait'[1] \in left
                   /\ \A x \in left : wait'[1] <= x

\* C27. Every call run() makes to iomap.poll passes a timeout of at least 1:
\* exactly 1 on the first pass of the loop, without a timeout (timeout <= 0),
\* and when check_timeout returned less than 1; otherwise what check_timeout
\* returned, the least time left of the running tasks whose time is not up,
\* which is more than 1 for a timeout of more than 1 second and at most the
\* timeout.
C27_PollTimeout == [][C27_PollStep /\ C27_CheckStep]_vars

\* C27 witness: poll was called with the whole of a timeout of several seconds.
C27_Witness ==
    /\ pc = "update"
    /\ timeout = LongTimeout
    /\ wait = Some(LongTimeout)
    /\ running # <<>>

\* C28. Stdin pumping, for every sequence of write counts and errors of
\* os.write: the bytes delivered to the child's stdin are the first byteswritten
\* bytes of the payload, in order, each once, and all of it once the cursor is
\* at the end; byteswritten never decreases and never exceeds
\* len(inputbuffer); the stdin pipe is unregistered and closed only with the
\* cursor at the end of the payload or after an I/O error that is not EINTR.  A
\* task with no payload never holds or registers a stdin pipe.
C28_StdinPumping ==
    /\ [](\A t \in Tasks :
            /\ task[t].byteswritten <= Len(inputbuffer)
            /\ kid[t].inp = SubSeq(inputbuffer, 1, task[t].byteswritten)
            /\ task[t].byteswritten = Len(inputbuffer) => kid[t].inp = inputbuffer
            /\ task[t].stdin <=> Fd(t, "stdin") \in writemap
            /\ Fd(t, "stdin") \notin readmap
            /\ inputbuffer = "" => ~task[t].stdin /\ task[t].byteswritten = 0
            /\ (Started(t) /\ inputbuffer # "" /\ ~task[t].stdin) =>
                   \/ task[t].byteswritten = Len(inputbuffer)
                   \/ \E e \in {"EPIPE", "EIO"} : Tagged(t, StrError(e)) > 0)
    /\ [][\A t \in Tasks :
            /\ task'[t].byteswritten >= task[t].byteswritten
            /\ (task[t].stdin /\ ~task'[t].stdin) =>
                   \/ task[t].byteswritten = Len(inputbuffer)
                   \/ \E k \in DOMAIN task'[t].failures \ DOMAIN task[t].failures :
                          task'[t].failures[k] \in {StrError("EPIPE"), StrError("EIO")}]_vars

\* C28 witness: os.write took one byte of a payload of two; the cursor is at 1,
\* the child has the first byte, and the stdin pipe stays open and registered.
C28_Witness ==
    /\ pc = "update"
    /\ Len(inputbuffer) = MaxIn
    /\ task[1].byteswritten = 1
    /\ kid[1].inp = SubSeq(inputbuffer, 1, 1)
    /\ task[1].stdin
    /\ Fd(1, "stdin") \in writemap

\* The state before a handler is called for fd while the next system call on
\* fd fails with errno e, and the state the handler leaves.
Faulty(fd, e) == [World EXCEPT !.oracle.err = [x \in {fd} |-> e]]

Handled(fd, e) == Handler(Faulty(fd, e), fd)

\* The handler of fd makes a system call on it (handle_stdin makes none once
\* the payload is written).
MakesCall(fd) == fd[2] = "stdin" => task[fd[1]].byteswritten < Len(inputbuffer)

\* C29. In each of the three pipe handlers an EINTR of the read or write leaves
\* the task as it was (pipe open and registered, cursor, buffers and failures
\* unchanged), and any other I/O error unregisters and closes that pipe,
\* appends one entry to failures, leaves the other two pipes as they were, and
\* is not raised out of the handler.
C29_HandlerErrors ==
    \A fd \in readmap \cup writemap :
        MakesCall(fd) =>
            LET t == fd[1]
                R == Handled(fd, "EIO")
                others == {Fd(t, s) : s \in {"stdin", "stdout", "stderr"}} \ {fd}
            IN  /\ Handled(fd, "EINTR") = Faulty(fd, "EINTR")
                /\ ~R.error
                /\ fd \notin R.readmap \cup R.writemap
                /\ R.trace = << <<"unregister", fd>>, <<"close", fd>> >>
                /\ R.task[t].failures = Append(task[t].failures, StrError("EIO"))
                /\ R.readmap = readmap \ {fd}
                /\ R.writemap = writemap \ {fd}
                /\ R.kid = kid
                /\ R.done = done
                /\ R.task[t] = [task[t] EXCEPT !.stdin = IF fd[2] = "stdin" THEN FALSE ELSE @,
                                               !.stdout = IF fd[2] = "stdout" THEN FALSE ELSE @,
                                               !.stderr = IF fd[2] = "stderr" THEN FALSE ELSE @,
                                               !.failures = Append(@, StrError("EIO"))]
                /\ \A u \in Tasks \ {t} : R.task[u] = task[u]

\* C29 witness: a read of the stdout pipe failed with an error other than
\* EINTR; the pipe is closed, the failure is recorded, and the task's stdin and
\* stderr are open and registered as before.
C29_Witness ==
    /\ pc = "update"
    /\ task[1].failures = <<StrError("EIO")>>
    /\ ~task[1].stdout
    /\ task[1].stdin /\ Fd(1, "stdin") \in writemap
    /\ task[1].stderr /\ Fd(1, "stderr") \in readmap
    /\ Fd(1, "stdout") \notin readmap

\* The fds of the handler calls in the trace tr, in order.
Calls(tr) ==
    LET c == SelectSeq(tr, LAMBDA e : e[1] = "call")
    IN  [k \in DOMAIN c |-> c[k][2]]

\* C30. Within one call of poll, of an IOMap and of a PollIOMap, whatever the
\* system calls answer: the handler of an fd is called at most once, only for
\* an fd that is ready and that is registered when it is called, and no
\* exception leaves poll.  With both maps empty, and when a signal interrupts
\* the wait (EINTR), poll calls no handler and changes nothing.
C30_PollDispatch ==
    pc = "poll" =>
        \A O \in Oracles(ReadyFds(World)) :
            LET R == PollResult(O)
                calls == Calls(R.trace)
            IN  /\ ~R.error
                /\ \A i, j \in DOMAIN calls : calls[i] = calls[j] => i = j
                /\ \A k \in DOMAIN R.trace :
                       R.trace[k][1] = "call" =>
                           /\ R.trace[k][2] \in ReadyFds(World)
                           /\ R.trace[k][2] \in readmap \cup writemap
                           /\ ~Before(R.trace, k, <<"unregister", R.trace[k][2]>>)
                /\ (O.select = "EINTR" \/ (readmap = {} /\ writemap = {})) =>
                       R = [World EXCEPT !.oracle = O]

\* C30 witness: at the wait of a run over a PollIOMap the three pipes of a
\* task are ready, and the poll to come calls the three handlers, once each.
C30_Witness ==
    /\ pc = "poll"
    /\ iomap = "poll"
    /\ Calls(PollResult(NoFaults).trace)
         = <<Fd(1, "stdin"), Fd(1, "stdout"), Fd(1, "stderr")>>
    /\ \E O \in Oracles(ReadyFds(World)) :
         O.select = "EINTR" /\ PollResult(O).trace = <<>>

\* ------------------------------------------------------------------- C21
\* The destinations of Dsts that are absolute paths.
C21_AbsoluteDsts == {"/abs/path", "/"}

\* C21: slurp called with an absolute dst raises the usage error before any
\* side effect: at every state of such a call no directory was made, no
\* Manager is built (no run is anywhere), no Task was added or started, no
\* child exists, and the call is either not yet past its first statement or
\* has raised ValueError.
C21_AbsoluteDstRaises ==
    (slurp.pc # "none" /\ slurp.dst \in C21_AbsoluteDsts) =>
        /\ slurp.pc \in {"called", "raised"}
        /\ slurp.pc = "raised" =>
              slurp.error = "ValueError: slurp: Destination must be a relative path"
        /\ slurp.made = {}
        /\ slurp.localdirs = <<>>
        /\ pc = "none"
        /\ tasks = <<>> /\ save_tasks = <<>> /\ running = <<>> /\ done = <<>>
        /\ taskcount = 0
        /\ \A t \in Tasks : ~Started(t) /\ kid[t] = NoKid
        /\ readmap = {} /\ writemap = {}

\* slurp has raised for the destination "/abs/path" where directories would
\* have had to be made.
C21_Witness ==
    /\ slurp.pc = "raised"
    /\ slurp.dst = "/abs/path"
    /\ slurp.localdir = "dl"
    /\ slurp.exists = {}
    /\ Len(slurp.hosts) = 2

\* ------------------------------------------------------------------- C22
\* The prompts of Prompts that, stripped and lower-cased, end with
\* "password:".
C22_PasswordPrompts == {"Password:", "user@h1's password: ", "PASSWORD:\n"}

\* The helper was called with a prompt asking for a password.
C22_Asked == Len(askpass.argv) > 1 /\ askpass.argv[2] \in C22_PasswordPrompts

\* C22: the askpass helper prints the password on its standard output only
\* when the prompt, stripped and lower-cased, ends with "password:" and the
\* socket named by PARALLAX_ASKPASS_SOCKET was set and reachable, and then it
\* prints just the password it read; for every other prompt, or none, it never
\* connects, prints nothing on standard output, goes no further than the test
\* of the prompt and exits with a non-zero status.
C22_PasswordOnlyWhenAsked ==
    askpass.pc # "none" =>
        /\ askpass.stdout # "" =>
              /\ C22_Asked
              /\ askpass.address # "" /\ askpass.listening /\ askpass.connected
              /\ askpass.stdout = askpass.password \o "\n"
        /\ ~C22_Asked =>
              /\ ~askpass.connected
              /\ askpass.stdout = ""
              /\ askpass.pc \in {"start", "exited"}
              /\ askpass.pc = "exited" => (askpass.code # None /\ askpass.code # Some(0))

\* The helper has printed the password for a prompt in capitals with a
\* trailing newline; see C22_Refused for the other case.
C22_Witness ==
    /\ askpass.pc = "exited"
    /\ askpass.argv = <<"parallax-askpass", "PASSWORD:\n">>
    /\ askpass.stdout = "secret\n"
    /\ askpass.code = Some(0)

\* ------------------------------------------------------------------- C31
\* A timeout phase that finds a running task already killed: the task is not
\* killed or tagged again, its child is left alone and it stays in running.
C31_RepeatedPhase ==
    (pc = "timeout" /\ pc' \in {"poll", "result"}) =>
        \A t \in Range(running) :
            task[t].killed =>
                /\ task'[t].sigkills = task[t].sigkills
                /\ task'[t].failures = task[t].failures
                /\ task'[t].killed
                /\ kid'[t] = kid[t]
                /\ t \in Range(running')

\* C31: a task that has timed out stays in running while it drains, and the
\* repeated timeout phases do not kill or tag it again: each task receives at
\* most one SIGKILL, 'Timed out' is at most once in its failures, and a killed
\* task always has 'Timed out' or 'Interrupted' in its failures.
C31_TimedOutOnce ==
    /\ [][C31_RepeatedPhase]_vars
    /\ [](\A t \in Tasks :
            /\ task[t].sigkills <= 1
            /\ Tagged(t, "Timed out") <= 1
            /\ task[t].killed =>
                  Tagged(t, "Timed out") + Tagged(t, "Interrupted") >= 1
            /\ (task[t].killed /\ PipesOpen(t)) => t \in Range(running))

\* The loop has come round to the timeout phase again with task 1 killed in an
\* earlier phase, its time up, still draining its pipes in running, its child
\* dead of the one SIGKILL.
C31_Witness ==
    /\ pc = "timeout"
    /\ timeout > 0
    /\ 1 \in Range(running)
    /\ task[1].killed
    /\ task[1].elapsed >= timeout
    /\ task[1].sigkills = 1
    /\ Tagged(1, "Timed out") = 1
    /\ PipesOpen(1)
    /\ kid[1].state = "dead"

\* ------------------------------------------------------------------- C33
\* The names the k-th call of open_files returned (None left out).
Tokens(k) == {writer.opened[k][1], writer.opened[k][2]} \ {""}

\* C33: within one Writer, every call of open_files returns filename tokens
\* that no earlier call returned, for every sequence of host strings, repeated
\* hosts and hosts ending in a numeric suffix included.
C33_FreshTokens ==
    \A i, j \in DOMAIN writer.opened : i < j => Tokens(i) \cap Tokens(j) = {}

\* ------------------------------------------------------------------- C32
\* The kinds ks of the items enqueued for one filename are an OPEN, then
\* payloads, then at most one EOF.
OpenDataEof(ks) ==
    /\ ks # <<>>
    /\ ks[1] = "OPEN"
    /\ \A k \in 2..Len(ks) :
          /\ ks[k] # "OPEN"
          /\ ks[k] = "EOF" => k = Len(ks)

\* C32: for every spill filename token, the items the orchestrator enqueues
\* to the Writer are an OPEN, then zero or more payloads, then at most one EOF,
\* so that the Writer thread never looks up a file it has not opened and is
\* never ended by a write to a closed file.
C32_OpenDataEof ==
    /\ \A f \in DOMAIN writer.kinds : OpenDataEof(writer.kinds[f])
    /\ writer.error = ""

\* ------------------------------------------------------------------- C34
\* run() is about to call iomap.poll, or update_tasks has just returned to
\* the loop (before check_timeout, or before the first while test).
C34_AfterUpdate == pc \in {"poll", "timeout", "result"}

\* C34 as the specification states it: whenever the run() loop enters
\* iomap.poll, and when update_tasks returns, pending is empty or the number of
\* running tasks equals the limit, whatever the limit.
C34_PendingOrFull ==
    C34_AfterUpdate => (tasks = <<>> \/ Len(running) = limit)

\* update_tasks returns only from a reap_tasks that found nothing finished.
C34_UpdateReturns ==
    (pc = "update" /\ pc' \in {"poll", "timeout", "result"}) =>
        /\ finished_count = 0
        /\ running' = running
        /\ tasks' = tasks

\* C34. Work conservation: whenever the run() loop enters iomap.poll, and
\* when update_tasks returns, pending is empty or the number of running tasks
\* is not below the limit: it equals the limit when limit >= 0, and with a
\* negative limit nothing runs and nothing was ever started.  update_tasks
\* returns only after a reap that freed no slot, so a freed slot is refilled
\* from pending in the same update_tasks call, before the next wait.
C34_WorkConservation ==
    /\ [][C34_UpdateReturns]_vars
    /\ [](C34_AfterUpdate =>
            \/ tasks = <<>>
            \/ limit >= 0 /\ Len(running) = limit
            \/ limit < 0 /\ running = <<>> /\ taskcount = 0)

\* run() is about to wait with its one slot, freed by task 1, refilled with
\* task 2.
C34_Witness ==
    /\ pc = "poll"
    /\ limit = 1
    /\ done = <<1>>
    /\ running = <<2>>
    /\ tasks = <<>>

\* ------------------------------------------------------------------- C35
\* run() has returned with pending and running empty and every submitted
\* task in done, once.
C35_Returned ==
    /\ pc = "returned"
    /\ tasks = <<>>
    /\ running = <<>>
    /\ Range(done) = Submitted
    /\ Len(done) = Len(save_tasks)
    /\ save_tasks # <<>>

\* C35. Termination: with at least one task submitted, no interrupt, and
\* every started child exiting and closing its pipes in the end (on its own,
\* or killed because timeout > 0), run() eventually returns with pending and
\* running empty and all tasks in done if limit >= 1; with limit <= 0 no task
\* is ever started, run() never returns and the loop turns for ever.
C35_Termination ==
    /\ limit >= 1 => <>C35_Returned
    /\ [](limit <= 0 =>
            /\ pc \in {"run", "update", "poll", "timeout"}
            /\ taskcount = 0
            /\ running = <<>>
            /\ done = <<>>
            /\ \A t \in Tasks : ~Started(t))
    /\ limit <= 0 => []<>(pc = "poll")

\* run() has returned with both tasks done, started one after the other,
\* when no timeout was there to kill them.
C35_Witness ==
    /\ C35_Returned
    /\ limit = 1
    /\ timeout <= 0
    /\ Len(done) = NTasks
    /\ \A t \in Tasks : task[t].exitstatus = Some(0)

====
